---- MODULE Spec2Model ----
(***************************************************************************)
(* Layout composition and circuit stitching of rivet_transpiler:           *)
(* get_full_map, transpile_right, transpile_left and transpile_chain of    *)
(* src/rivet_transpiler/transpiler.py, over circuits whose layouts are the *)
(* (input_qubit_mapping, initial_layout, final_layout) triples of a        *)
(* TranspileLayout.  Python lists are functions over 0 .. n-1.             *)
(* Further parts: split_parametrized_circuit and invert_map of             *)
(* src/qml_transpiler/transpile_part.py, get_stack_pass_manager of         *)
(* src/rivet_transpiler/stacks.py, and pack_circuits with                  *)
(* _find_optimal_subgraphs of src/rivet_transpiler/circuit_packing.py.     *)
(***************************************************************************)
EXTENDS Integers, Sequences, FiniteSets, TLC

\* Largest number of wires of a device, and of qubits of a fragment.
D == 3

Min(a, b) == IF a < b THEN a ELSE b

Len0(list) == Cardinality(DOMAIN list)

range(n) == [i \in 0 .. n - 1 |-> i]

\* list[:k]
Prefix(list, k) == [i \in 0 .. Min(k, Len0(list)) - 1 |-> list[i]]

Injective(f) == \A a, b \in DOMAIN f : f[a] = f[b] => a = b

Values(f) == {f[a] : a \in DOMAIN f}

Perms(n) == {p \in [0 .. n - 1 -> 0 .. n - 1] : Injective(p)}

Absent == [present |-> FALSE]

Err(kind) == [ok |-> FALSE, error |-> kind]

OkList(list) == [ok |-> TRUE, list |-> list]

\* ------------------------------------------------------------------------
\* Circuits and layouts
\* ------------------------------------------------------------------------

\* A QuantumCircuit: its wires, its operations in order, its _layout.
Circuit(n, ops, layout) ==
    [ok |-> TRUE, num_qubits |-> n, ops |-> ops, layout |-> layout]

\* The Layout a list of physical wires stands for: virtual v on list[v].
LayoutFromList(list) ==
    [v2p |-> list,
     p2v |-> [p \in Values(list) |-> CHOOSE v \in DOMAIN list : list[v] = p]]

\* layout[virtual] = physical: both old partners are dropped first.
LayoutSetItem(layout, virtual, physical) ==
    LET oldP == IF virtual \in DOMAIN layout.v2p
                THEN {layout.v2p[virtual]} ELSE {}
        oldV == IF physical \in DOMAIN layout.p2v
                THEN {layout.p2v[physical]} ELSE {}
        keepV == (DOMAIN layout.v2p \ {virtual}) \ oldV
        keepP == (DOMAIN layout.p2v \ oldP) \ {physical}
    IN  [v2p |-> [v \in keepV \cup {virtual} |->
                     IF v = virtual THEN physical ELSE layout.v2p[v]],
         p2v |-> [p \in keepP \cup {physical} |->
                     IF p = physical THEN virtual ELSE layout.p2v[p]]]

TranspileLayout(iqm, initial, final) ==
    [present |-> TRUE, input_qubit_mapping |-> iqm,
     initial_layout |-> initial, final_layout |-> final]

FinalLayout(list) == [present |-> TRUE, map |-> list]

\* Layout.from_intlist(list, *qregs) over n qubits.
from_intlist(list, n) ==
    IF ~Injective(list) \/ Len0(list) # n
    THEN Err("LayoutError")
    ELSE [ok |-> TRUE, layout |-> FinalLayout(list)]

\* ------------------------------------------------------------------------
\* get_full_map
\* ------------------------------------------------------------------------

\* The physical rows, ascending from row, whose out_virtual is out_qubit.
RECURSIVE RowsOf(_, _, _, _)
RowsOf(after_routing_map, out_qubit, row, n) ==
    IF row >= n THEN << >>
    ELSE (IF after_routing_map[row][2] = out_qubit THEN <<row>> ELSE << >>)
         \o RowsOf(after_routing_map, out_qubit, row + 1, n)

RECURSIVE FullMapFrom(_, _, _)
FullMapFrom(after_routing_map, out_qubit, n) ==
    IF out_qubit >= n THEN << >>
    ELSE RowsOf(after_routing_map, out_qubit, 0, n)
         \o FullMapFrom(after_routing_map, out_qubit + 1, n)

\* A 1-based sequence as a Python list.
AsList(seq) == [i \in 0 .. Len(seq) - 1 |-> seq[i + 1]]

\* dict(zip(input_qubit_mapping, transpiled_circuit.qubits))
zero_map(input_qubit_mapping, n) ==
    LET zipped == 0 .. Min(Len0(input_qubit_mapping), n) - 1 IN
    [v \in {input_qubit_mapping[k] : k \in zipped} |->
        CHOOSE k \in zipped : input_qubit_mapping[k] = v]

\* Row physical holds (in_virtual, out_virtual), () where nothing is placed.
after_layout_map(initial_layout, zero, n) ==
    [physical \in 0 .. n - 1 |->
        IF physical \in DOMAIN initial_layout.p2v
        THEN <<initial_layout.p2v[physical], zero[initial_layout.p2v[physical]]>>
        ELSE << >>]

\* The routing loop the wrong way round: the row a wire comes from takes
\* the out_virtual of the row it goes to.
after_routing_map_backwards(after_layout, final_layout, n) ==
    IF ~final_layout.present THEN after_layout
    ELSE [from_row \in 0 .. n - 1 |->
             <<after_layout[from_row][1],
               after_layout[final_layout.map[from_row]][2]>>]

\* Row final_layout[qubit] takes the out_virtual of the qubit's own row; of
\* several qubits routed to one row the last one written stays.
after_routing_map(after_layout, final_layout, n) ==
    IF ~final_layout.present THEN after_layout
    ELSE LET Sources(to_row) == {from_row \in 0 .. n - 1 :
                                    final_layout.map[from_row] = to_row}
             LastSource(to_row) ==
                 CHOOSE from_row \in Sources(to_row) :
                     \A other \in Sources(to_row) : other <= from_row
         IN  [to_row \in 0 .. n - 1 |->
                 IF Sources(to_row) = {} THEN after_layout[to_row]
                 ELSE <<after_layout[to_row][1],
                        after_layout[LastSource(to_row)][2]>>]

\* The wires read from the last one down, whatever the layout.
get_full_map_reversed(transpiled_circuit) ==
    OkList([v \in 0 .. transpiled_circuit.num_qubits - 1 |->
               transpiled_circuit.num_qubits - 1 - v])

get_full_map(transpiled_circuit) ==
    LET n == transpiled_circuit.num_qubits
        layout == transpiled_circuit.layout
    IN
    IF ~layout.present THEN OkList(range(n))
    ELSE
    LET initial_layout == layout.initial_layout
        final_layout == layout.final_layout
        zero == zero_map(layout.input_qubit_mapping, n)
        physical_bits == DOMAIN initial_layout.p2v
        after_layout == after_layout_map(initial_layout, zero, n)
    IN
    IF \E p \in physical_bits : initial_layout.p2v[p] \notin DOMAIN zero
    THEN Err("KeyError")
    ELSE IF \E p \in physical_bits : p \notin 0 .. n - 1
    THEN Err("IndexError")
    ELSE IF final_layout.present
            /\ \E q \in 0 .. n - 1 : q \notin DOMAIN final_layout.map
    THEN Err("KeyError")
    ELSE IF \E row \in 0 .. n - 1 : after_layout[row] = << >>
    THEN Err("ValueError")
    ELSE IF final_layout.present
            /\ \E q \in 0 .. n - 1 : final_layout.map[q] \notin 0 .. n - 1
    THEN Err("IndexError")
    ELSE OkList(AsList(FullMapFrom(
             after_routing_map(after_layout, final_layout, n), 0, n)))

\* ------------------------------------------------------------------------
\* The compiler behind transpile (pass_manager.run), and compose
\* ------------------------------------------------------------------------

NoHint == [present |-> FALSE]

Hint(list) == [present |-> TRUE, list |-> list]

NoBackend == [kind |-> "none", num_qubits |-> 0]

Simulator == [kind |-> "simulator", num_qubits |-> 0]

Device(d) == [kind |-> "device", num_qubits |-> d]

Backends == {NoBackend, Simulator} \cup {Device(d) : d \in 1 .. D}

\* A circuit fragment before compilation: one gate per virtual qubit.
Fragment(tag, n) ==
    [num_qubits |-> n,
     ops |-> [v \in 1 .. n |->
                [gate |-> tag, dagger |-> FALSE, qubits |-> <<v - 1>>]]]

\* The fragment followed by one more operation on its first qubit.
Followed(fragment, gate) ==
    [fragment EXCEPT
        !.ops = Append(@, [gate |-> gate, dagger |-> FALSE, qubits |-> <<0>>])]

\* The operations Instruction.inverse() raises for: they have no definition.
NoInverse == {"measure", "reset"}

\* Ancilla k takes the k-th idle wire, in ascending order.
WithAncillas(placement, d) ==
    LET n == Len0(placement)
        idle == (0 .. d - 1) \ Values(placement)
        Nth(k) == CHOOSE p \in idle : Cardinality({q \in idle : q < p}) = k
    IN  [v \in 0 .. d - 1 |-> IF v < n THEN placement[v] ELSE Nth(v - n)]

\* The operations of a compiled fragment: each gate on the wire its
\* virtual qubit is placed on, then the routing swaps, if any.
CompiledOps(circuit, place, final) ==
    [i \in 1 .. Len(circuit.ops) |->
        [gate |-> circuit.ops[i].gate, dagger |-> circuit.ops[i].dagger,
         qubits |-> [j \in 1 .. Len(circuit.ops[i].qubits) |->
                        place[circuit.ops[i].qubits[j]]]]]
    \o (IF final.present
        THEN <<[gate |-> "swaps", dagger |-> FALSE,
                qubits |-> [j \in 1 .. Len0(final.map) |-> final.map[j - 1]]]>>
        ELSE << >>)

Compiled(circuit, place, final, d) ==
    Circuit(d, CompiledOps(circuit, place, final),
            TranspileLayout(range(d), LayoutFromList(place), final))

Routings(d) == {Absent} \cup {FinalLayout(p) : p \in Perms(d)}

\* Every result a device of d wires may give for the circuit and the hint:
\* the hinted qubits are placed as the hint says; a hint shorter than the
\* circuit is either refused or completed on the idle wires.
DeviceOutcomes(circuit, hint, d) ==
    LET n == circuit.num_qubits IN
    IF n > d THEN {Err("TranspilerError")}
    ELSE IF hint.present /\ (Len0(hint.list) > n \/ ~Injective(hint.list))
    THEN {Err("LayoutError")}
    ELSE IF hint.present /\ \E v \in DOMAIN hint.list : hint.list[v] \notin 0 .. d - 1
    THEN {Err("TranspilerError")}
    ELSE LET Honours(f) == ~hint.present \/ \A v \in DOMAIN hint.list : f[v] = hint.list[v]
             placements == {f \in [0 .. n - 1 -> 0 .. d - 1] :
                               Injective(f) /\ Honours(f)}
         IN  {Compiled(circuit, WithAncillas(placement, d), final, d) :
                 placement \in placements, final \in Routings(d)}
             \cup (IF hint.present /\ Len0(hint.list) < n
                   THEN {Err("LayoutError")} ELSE {})

\* transpile(circuit, backend, initial_layout=hint): the set of results.
transpile(circuit, backend, hint) ==
    IF backend.kind = "device"
    THEN DeviceOutcomes(circuit, hint, backend.num_qubits)
    ELSE IF ~hint.present
    THEN {Circuit(circuit.num_qubits, circuit.ops, Absent)}
    ELSE IF backend.kind = "simulator"
    THEN DeviceOutcomes(circuit, hint, circuit.num_qubits)
    ELSE IF hint.list = range(circuit.num_qubits)
    THEN {Circuit(circuit.num_qubits, circuit.ops, Absent)}
    ELSE {Err("TranspilerError")}

\* self.compose(other) and self.compose(other, front=True): a copy of self,
\* its layout included, with other's operations on the same wires.
ComposeFrontAlways(self, other, front) ==
    IF other.num_qubits > self.num_qubits THEN Err("CircuitError")
    ELSE Circuit(self.num_qubits, other.ops \o self.ops, self.layout)

ComposeUnchecked(self, other, front) ==
    Circuit(self.num_qubits,
            IF front THEN other.ops \o self.ops ELSE self.ops \o other.ops,
            self.layout)

compose(self, other, front) ==
    IF other.num_qubits > self.num_qubits THEN Err("CircuitError")
    ELSE Circuit(self.num_qubits,
                 IF front THEN other.ops \o self.ops ELSE self.ops \o other.ops,
                 self.layout)

\* compose working on self whatever inplace says.
composed_self_in_place(self, other, front, inplace) ==
    IF compose(self, other, front).ok THEN compose(self, other, front)
    ELSE self

\* The object self after self.compose(other, front=front, inplace=inplace):
\* the operations are added to a copy unless inplace is set.
composed_self(self, other, front, inplace) ==
    IF inplace /\ compose(self, other, front).ok
    THEN compose(self, other, front)
    ELSE self

\* [layout[qubit] for qubit in circuit.qubits], range(n) when absent.
Routing(final, n) ==
    IF ~final.present THEN OkList(range(n))
    ELSE IF \E q \in 0 .. n - 1 : q \notin DOMAIN final.map
    THEN Err("KeyError")
    ELSE OkList([q \in 0 .. n - 1 |-> final.map[q]])

\* [outer[qubit] for qubit in inner]
Through(outer, inner) ==
    IF \E i \in DOMAIN inner : inner[i] \notin DOMAIN outer
    THEN Err("IndexError")
    ELSE OkList([i \in DOMAIN inner |-> outer[inner[i]]])

\* ------------------------------------------------------------------------
\* transpile_right
\* ------------------------------------------------------------------------

\* transpile_right from the compiled right circuit on.
StitchRight(central_circuit, transpiled_right_circuit) ==
    IF ~transpiled_right_circuit.ok THEN transpiled_right_circuit
    ELSE
    LET resulting_circuit ==
            compose(central_circuit, transpiled_right_circuit, FALSE)
        central_routing ==
            Routing(central_circuit.layout.final_layout,
                    central_circuit.num_qubits)
        right_routing ==
            Routing(transpiled_right_circuit.layout.final_layout,
                    transpiled_right_circuit.num_qubits)
        final_routing == Through(right_routing.list, central_routing.list)
        final_layout ==
            from_intlist(final_routing.list, resulting_circuit.num_qubits)
    IN
    IF ~resulting_circuit.ok THEN resulting_circuit
    ELSE IF ~transpiled_right_circuit.layout.present THEN resulting_circuit
    ELSE IF ~central_circuit.layout.present
    THEN [resulting_circuit EXCEPT !.layout = transpiled_right_circuit.layout]
    ELSE IF ~central_routing.ok THEN central_routing
    ELSE IF ~right_routing.ok THEN right_routing
    ELSE IF ~final_routing.ok THEN final_routing
    ELSE IF ~final_layout.ok THEN final_layout
    ELSE [resulting_circuit EXCEPT !.layout =
             TranspileLayout(central_circuit.layout.input_qubit_mapping,
                             central_circuit.layout.initial_layout,
                             final_layout.layout)]

\* The hint transpile_right gives the compiler.
RightHint(central_circuit, right_circuit) ==
    LET full_map == get_full_map(central_circuit) IN
    IF ~full_map.ok THEN full_map
    ELSE [ok |-> TRUE,
          hint |-> Hint(Prefix(full_map.list, right_circuit.num_qubits))]

\* ------------------------------------------------------------------------
\* transpile_left
\* ------------------------------------------------------------------------

\* The inverse of one operation: a gate's adjoint on the same wires, the
\* routing swaps undone.
InverseOp(op) ==
    IF op.gate = "swaps"
    THEN [op EXCEPT !.qubits =
             [j \in DOMAIN op.qubits |->
                 (CHOOSE i \in DOMAIN op.qubits : op.qubits[i] = j - 1) - 1]]
    ELSE [op EXCEPT !.dagger = ~op.dagger]

\* The inverse of the operations that have one, the others left out.
inverse_of_the_invertible(circuit) ==
    LET invertible == SelectSeq(circuit.ops, LAMBDA op : op.gate \notin NoInverse)
    IN  Circuit(circuit.num_qubits,
                [i \in 1 .. Len(invertible) |->
                    InverseOp(invertible[Len(invertible) + 1 - i])],
                Absent)

\* circuit.inverse(): a new circuit, without layout, of the inverted
\* operations in reverse order; a measurement or a reset has no inverse.
inverse(circuit) ==
    IF \E i \in DOMAIN circuit.ops : circuit.ops[i].gate \in NoInverse
    THEN Err("CircuitError")
    ELSE Circuit(circuit.num_qubits,
                 [i \in 1 .. Len(circuit.ops) |->
                     InverseOp(circuit.ops[Len(circuit.ops) + 1 - i])],
                 Absent)

\* [initial_layout[qubit] for qubit in input_qubit_mapping]
InitialMap(layout) ==
    IF \E k \in DOMAIN layout.input_qubit_mapping :
          layout.input_qubit_mapping[k] \notin DOMAIN layout.initial_layout.v2p
    THEN Err("KeyError")
    ELSE OkList([k \in DOMAIN layout.input_qubit_mapping |->
                    layout.initial_layout.v2p[layout.input_qubit_mapping[k]]])

\* The hint taken from the central circuit's full map instead.
LeftHintFromFullMap(central_circuit, left_circuit) ==
    RightHint(central_circuit, left_circuit)

\* left_initial_layout, the hint transpile_left gives the compiler.
LeftHint(central_circuit, left_circuit) ==
    IF ~central_circuit.layout.present
    THEN [ok |-> TRUE, hint |-> Hint(range(left_circuit.num_qubits))]
    ELSE LET initial_map == InitialMap(central_circuit.layout) IN
         IF ~initial_map.ok THEN initial_map
         ELSE [ok |-> TRUE,
               hint |-> Hint(Prefix(initial_map.list, left_circuit.num_qubits))]

\* The loop stopping one pair short.
ReassignAllButLast(initial_layout, input_qubit_mapping, initial_map, k) ==
    LET pairs == Min(Len0(input_qubit_mapping), Len0(initial_map)) - 1
        RECURSIVE From(_, _)
        From(layout, i) ==
            IF i >= pairs THEN layout
            ELSE From(LayoutSetItem(layout, input_qubit_mapping[i],
                                    initial_map[i]), i + 1)
    IN  From(initial_layout, k)

\* The loop left after its first pair.
ReassignFirstOnly(initial_layout, input_qubit_mapping, initial_map, k) ==
    IF k >= Min(Len0(input_qubit_mapping), Len0(initial_map))
    THEN initial_layout
    ELSE LayoutSetItem(initial_layout, input_qubit_mapping[k], initial_map[k])

\* for virtual, physical in zip(input_qubit_mapping, initial_map):
\*     initial_layout[virtual] = physical      (from pair k on)
RECURSIVE Reassign(_, _, _, _)
Reassign(initial_layout, input_qubit_mapping, initial_map, k) ==
    IF k >= Min(Len0(input_qubit_mapping), Len0(initial_map))
    THEN initial_layout
    ELSE Reassign(LayoutSetItem(initial_layout, input_qubit_mapping[k],
                                initial_map[k]),
                  input_qubit_mapping, initial_map, k + 1)

\* transpile_left from the compiled inverted left circuit on.
StitchLeft(central_circuit, transpiled_inverted_left_circuit) ==
    IF ~transpiled_inverted_left_circuit.ok
    THEN transpiled_inverted_left_circuit
    ELSE
    LET inverted_back == inverse(transpiled_inverted_left_circuit)
        transpiled_left_circuit ==
            [inverted_back EXCEPT
                !.layout = transpiled_inverted_left_circuit.layout]
        resulting_circuit ==
            compose(central_circuit, transpiled_left_circuit, TRUE)
        left_routing ==
            Routing(transpiled_left_circuit.layout.final_layout,
                    transpiled_left_circuit.num_qubits)
        central_routing ==
            IF ~central_circuit.layout.present
            THEN OkList(range(central_circuit.num_qubits))
            ELSE Routing(central_circuit.layout.final_layout,
                         central_circuit.num_qubits)
        final_routing == Through(central_routing.list, left_routing.list)
        final_layout ==
            from_intlist(final_routing.list, resulting_circuit.num_qubits)
        input_qubit_mapping ==
            transpiled_left_circuit.layout.input_qubit_mapping
        initial_map == get_full_map(transpiled_left_circuit)
        initial_layout ==
            Reassign(transpiled_left_circuit.layout.initial_layout,
                     input_qubit_mapping, initial_map.list, 0)
    IN
    IF ~inverted_back.ok THEN inverted_back
    ELSE IF ~resulting_circuit.ok THEN resulting_circuit
    ELSE IF ~transpiled_left_circuit.layout.present THEN resulting_circuit
    ELSE IF ~left_routing.ok THEN left_routing
    ELSE IF ~central_routing.ok THEN central_routing
    ELSE IF ~final_routing.ok THEN final_routing
    ELSE IF ~final_layout.ok THEN final_layout
    ELSE IF ~initial_map.ok THEN initial_map
    ELSE [resulting_circuit EXCEPT !.layout =
             TranspileLayout(input_qubit_mapping, initial_layout,
                             final_layout.layout)]

\* ------------------------------------------------------------------------
\* transpile_chain, and the nested transpile_right it is compared with
\* ------------------------------------------------------------------------

Run(circuit, hint, result) ==
    [circuit |-> circuit, hint |-> hint, result |-> result]

Outcome(result, runs) == [result |-> result, runs |-> runs]

\* The hint every later circuit gets: full_map[:circuit.num_qubits].
ChainHint(full_map, circuit) ==
    IF ~full_map.present THEN NoHint
    ELSE Hint(Prefix(full_map.list, circuit.num_qubits))

\* The loop of transpile_chain from circuit i on, and the layout of the
\* last compiled circuit put on the chain at the end.
RECURSIVE ChainFrom(_, _, _, _, _, _)
ChainFrom(circuits, backend, i, full_map, chain_circuit, runs) ==
    IF i > Len(circuits)
    THEN {Outcome([chain_circuit EXCEPT
                      !.layout = runs[Len(runs)].result.layout], runs)}
    ELSE
    LET initial_layout == ChainHint(full_map, circuits[i])
        Step(transpiled_circuit) ==
            LET ran == Append(runs, Run(circuits[i], initial_layout,
                                        transpiled_circuit))
                composed == IF i = 1 THEN transpiled_circuit
                            ELSE compose(chain_circuit, transpiled_circuit, FALSE)
                next_map == get_full_map(transpiled_circuit)
            IN  IF ~transpiled_circuit.ok
                THEN {Outcome(transpiled_circuit, ran)}
                ELSE IF ~composed.ok THEN {Outcome(composed, ran)}
                ELSE IF ~next_map.ok THEN {Outcome(next_map, ran)}
                ELSE ChainFrom(circuits, backend, i + 1,
                               [present |-> TRUE, list |-> next_map.list],
                               composed, ran)
    IN  UNION {Step(transpiled_circuit) :
                  transpiled_circuit \in
                      transpile(circuits[i], backend, initial_layout)}

\* transpile_chain(circuits, backend): every result with its compiler runs.
transpile_chain(circuits, backend) ==
    ChainFrom(circuits, backend, 1, Absent, Absent, << >>)

\* A compiler that may give another result each time it is run.
AnyCompiler(runs, circuit, backend, hint) == transpile(circuit, backend, hint)

\* The compiler is deterministic: a circuit and hint it has compiled in
\* runs get the same result again.
SameCompiler(runs, circuit, backend, hint) ==
    LET seen == {i \in DOMAIN runs :
                    runs[i].circuit = circuit /\ runs[i].hint = hint}
    IN  IF seen = {} THEN transpile(circuit, backend, hint)
        ELSE {runs[i].result : i \in seen}

\* build_right_circuit: transpile_right of every later part onto the
\* compiled first part, from part i on.
RECURSIVE RightFrom(_, _, _, _, _)
RightFrom(circuit_parts, backend, i, central_circuit, runs) ==
    IF i > Len(circuit_parts) THEN {central_circuit}
    ELSE
    LET hint == RightHint(central_circuit, circuit_parts[i])
        Step(transpiled) ==
            LET result == StitchRight(central_circuit, transpiled) IN
            IF ~result.ok THEN {result}
            ELSE RightFrom(circuit_parts, backend, i + 1, result, runs)
    IN  IF ~hint.ok THEN {hint}
        ELSE UNION {Step(transpiled) :
                       transpiled \in SameCompiler(runs, circuit_parts[i],
                                                   backend, hint.hint)}

build_right_circuit(circuit_parts, backend, runs) ==
    UNION {IF ~first.ok THEN {first}
           ELSE RightFrom(circuit_parts, backend, 2, first, runs) :
              first \in SameCompiler(runs, circuit_parts[1], backend, NoHint)}

\* ------------------------------------------------------------------------
\* A caller's session: compile a fragment, stitch onto it, read its map
\* ------------------------------------------------------------------------

\* Stitches a session makes onto its central circuit.
MaxStitch == 1

VARIABLES
    central,   \* the compiled circuit the caller holds, and its fragment's qubit count
    call,      \* the last call: its arguments, the compiler runs it made, its result
    stitches,  \* stitches made so far
    compared,  \* the chain and the nested right stitch of one list of parts
    operands,  \* the caller's operand objects as the last call left them
    again,     \* the last call made once more on equal inputs
    util       \* a utility function's arguments, and what it returned

vars == <<central, call, stitches, compared, operands, again, util>>

Operands(central_circuit, fragment) ==
    [central |-> central_circuit, fragment |-> fragment]

NotAgain == [done |-> FALSE]

NoUtil == [op |-> "none"]

NoCircuit == [held |-> FALSE]

Held(circuit, n) == [held |-> TRUE, circuit |-> circuit, N |-> n]

Call(op, circuit, fragment, backend, compiles, result) ==
    [op |-> op, central |-> circuit, fragment |-> fragment,
     backend |-> backend, compiles |-> compiles, result |-> result]

\* No circuit compiled, no call made.
NoSession ==
    /\ central = NoCircuit
    /\ call = Call("none", Absent, Fragment("A", 0), NoBackend, << >>, Absent)
    /\ stitches = 0
    /\ compared = [done |-> FALSE]
    /\ operands = Operands(Absent, Fragment("A", 0))
    /\ again = NotAgain

Init ==
    /\ NoSession
    /\ util = NoUtil

\* central = transpile(fragment, backend)
Transpile(fragment, backend) ==
    /\ ~central.held
    /\ \E result \in transpile(fragment, backend, NoHint) :
          /\ call' = Call("transpile", Absent, fragment, backend,
                          <<Run(fragment, NoHint, result)>>, result)
          /\ central' = IF result.ok
                        THEN Held(result, fragment.num_qubits)
                        ELSE central
    /\ operands' = Operands(Absent, fragment)
    /\ again' = NotAgain
    /\ UNCHANGED <<stitches, compared, util>>

\* central = transpile_right(central, right_circuit, backend)
TranspileRight(right_circuit, backend) ==
    /\ central.held
    /\ LET hint == RightHint(central.circuit, right_circuit) IN
       IF ~hint.ok
       THEN /\ call' = Call("transpile_right", central.circuit, right_circuit,
                            backend, << >>, hint)
            /\ operands' = Operands(central.circuit, right_circuit)
            /\ UNCHANGED central
       ELSE \E transpiled \in transpile(right_circuit, backend, hint.hint) :
               LET result == StitchRight(central.circuit, transpiled) IN
               /\ call' = Call("transpile_right", central.circuit,
                               right_circuit, backend,
                               <<Run(right_circuit, hint.hint, transpiled)>>,
                               result)
               /\ central' = IF result.ok THEN Held(result, central.N)
                             ELSE central
               /\ operands' =
                     Operands(IF transpiled.ok
                              THEN composed_self(central.circuit, transpiled,
                                                 FALSE, FALSE)
                              ELSE central.circuit,
                              right_circuit)
    /\ stitches' = stitches + 1
    /\ again' = NotAgain
    /\ UNCHANGED <<compared, util>>

\* central = transpile_left(central, left_circuit, backend)
TranspileLeft(left_circuit, backend) ==
    /\ central.held
    /\ LET hint == LeftHint(central.circuit, left_circuit)
           inverted_left_circuit == inverse(left_circuit)
       IN
       IF ~hint.ok \/ ~inverted_left_circuit.ok
       THEN /\ call' = Call("transpile_left", central.circuit, left_circuit,
                            backend, << >>,
                            IF ~hint.ok THEN hint ELSE inverted_left_circuit)
            /\ operands' = Operands(central.circuit, left_circuit)
            /\ UNCHANGED central
       ELSE \E transpiled \in
                   transpile(inverted_left_circuit, backend, hint.hint) :
               LET result == StitchLeft(central.circuit, transpiled) IN
               /\ call' = Call("transpile_left", central.circuit,
                               left_circuit, backend,
                               <<Run(inverted_left_circuit, hint.hint,
                                     transpiled)>>,
                               result)
               /\ central' = IF result.ok THEN Held(result, central.N)
                             ELSE central
               /\ operands' =
                     Operands(IF transpiled.ok
                                 /\ inverse(transpiled).ok
                              THEN composed_self(
                                       central.circuit,
                                       [inverse(transpiled) EXCEPT
                                           !.layout = transpiled.layout],
                                       TRUE, FALSE)
                              ELSE central.circuit,
                              left_circuit)
    /\ stitches' = stitches + 1
    /\ again' = NotAgain
    /\ UNCHANGED <<compared, util>>

\* get_full_map(central)
GetFullMap ==
    /\ central.held
    /\ call.op # "get_full_map"
    /\ call' = Call("get_full_map", central.circuit, Fragment("A", 0),
                    NoBackend, << >>, get_full_map(central.circuit))
    /\ operands' = Operands(central.circuit, Fragment("A", 0))
    /\ again' = NotAgain
    /\ UNCHANGED <<central, stitches, compared, util>>

\* The fragments a caller stitches on the left: gates only, or gates and
\* then an operation without inverse.
LeftFragments(n) ==
    {Fragment("L", n)} \cup {Followed(Fragment("L", n), gate) : gate \in NoInverse}

Next ==
    \/ \E n \in 1 .. D, backend \in Backends :
          Transpile(Fragment("A", n), backend)
    \/ /\ stitches < MaxStitch
       /\ \E n \in 1 .. D, backend \in Backends :
             TranspileRight(Fragment("B", n), backend)
    \/ /\ stitches < MaxStitch
       /\ \E n \in 1 .. D, backend \in Backends :
             \E left_circuit \in LeftFragments(n) :
                TranspileLeft(left_circuit, backend)
    \/ GetFullMap

Spec == Init /\ [][Next]_vars

\* ------------------------------------------------------------------------
\* Reading a layout: place, route, well-formedness
\* ------------------------------------------------------------------------

List3(a, b, c) == AsList(<<a, b, c>>)

\* place[v] is defined for the v-th virtual qubit of the circuit.
PlaceDefined(circuit, v) ==
    \/ ~circuit.layout.present
    \/ /\ v \in DOMAIN circuit.layout.input_qubit_mapping
       /\ circuit.layout.input_qubit_mapping[v]
             \in DOMAIN circuit.layout.initial_layout.v2p

\* place[v]: the wire the v-th virtual qubit starts on, v without a layout.
PlaceAt(circuit, v) ==
    IF ~circuit.layout.present THEN v
    ELSE circuit.layout.initial_layout.v2p[
             circuit.layout.input_qubit_mapping[v]]

\* route[p]: the wire the content of wire p ends on, p without routing.
RouteAt(circuit, p) ==
    IF ~circuit.layout.present THEN p
    ELSE IF ~circuit.layout.final_layout.present THEN p
    ELSE IF p \in DOMAIN circuit.layout.final_layout.map
    THEN circuit.layout.final_layout.map[p]
    ELSE p

\* The layout places every wire's virtual qubit injectively and routes by a
\* permutation of the wires.
WellFormed(circuit) ==
    LET n == circuit.num_qubits
        layout == circuit.layout
    IN  /\ layout.present
        /\ DOMAIN layout.input_qubit_mapping = 0 .. n - 1
        /\ Injective(layout.input_qubit_mapping)
        /\ DOMAIN layout.initial_layout.v2p = Values(layout.input_qubit_mapping)
        /\ Injective(layout.initial_layout.v2p)
        /\ Values(layout.initial_layout.v2p) = 0 .. n - 1
        /\ DOMAIN layout.initial_layout.p2v = 0 .. n - 1
        /\ \A v \in DOMAIN layout.initial_layout.v2p :
              layout.initial_layout.p2v[layout.initial_layout.v2p[v]] = v
        /\ layout.final_layout.present =>
              layout.final_layout.map \in Perms(n)

RightCalled == call.op = "transpile_right"

LeftCalled == call.op = "transpile_left"

\* The one compiler run of the last call.
TheRun == call.compiles[1]

\* ------------------------------------------------------------------------
\* Claims
\* ------------------------------------------------------------------------

\* C1: for every circuit whose layout has an injective placement and a
\* routing permutation (identity when absent), get_full_map returns
\* full_map[v] = route[place[v]] for every virtual qubit index v.
C1_FullMapComposition ==
    (call.op = "get_full_map" /\ call.central.layout.present
        /\ WellFormed(call.central))
    => /\ call.result.ok
       /\ DOMAIN call.result.list = 0 .. call.central.num_qubits - 1
       /\ \A v \in 0 .. call.central.num_qubits - 1 :
             call.result.list[v]
                = RouteAt(call.central, PlaceAt(call.central, v))

\* place = [1,0,2] and route = [0,2,1] have been read as [2,0,1].
C1_Witness ==
    /\ call.op = "get_full_map"
    /\ call.central.layout.present
    /\ WellFormed(call.central)
    /\ call.central.layout.final_layout.present
    /\ call.central.layout.final_layout.map = List3(0, 2, 1)
    /\ call.central.layout.initial_layout.v2p = List3(1, 0, 2)
    /\ call.result.ok
    /\ call.result.list = List3(2, 0, 1)

\* C2: whenever transpile_right returns a composite of central A and the
\* compiled right fragment B, get_full_map(composite)[v] is
\* B.route[get_full_map(A)[v]] for every virtual qubit v of A.
C2_RightStitchContinuity ==
    (RightCalled /\ Len(call.compiles) = 1 /\ call.result.ok)
    => LET full_map_A == get_full_map(call.central)
           full_map == get_full_map(call.result)
       IN  /\ full_map.ok
           /\ \A v \in DOMAIN full_map_A.list :
                 /\ v \in DOMAIN full_map.list
                 /\ full_map.list[v]
                       = RouteAt(TheRun.result, full_map_A.list[v])

\* C3: whenever central and the compiled right fragment both carry a layout
\* and the right fragment fits on central's wires, transpile_right returns a
\* composite with route'[p] = right.route[central.route[p]] for p among the
\* right fragment's wires and route'[p] = central.route[p] for the others.
C3_CompositeRouting ==
    (RightCalled /\ Len(call.compiles) = 1 /\ TheRun.result.ok
        /\ call.central.layout.present /\ TheRun.result.layout.present
        /\ TheRun.result.num_qubits <= call.central.num_qubits)
    => /\ call.result.ok
       /\ \A p \in 0 .. call.central.num_qubits - 1 :
             RouteAt(call.result, p)
                = IF p < TheRun.result.num_qubits
                  THEN RouteAt(TheRun.result, RouteAt(call.central, p))
                  ELSE RouteAt(call.central, p)

\* C4: in every composite transpile_right returns, place'[v] is
\* central.place[v] (v itself when central has no layout) for every virtual
\* qubit v of central.
C4_RightKeepsPlacement ==
    (RightCalled /\ call.result.ok)
    => \A v \in 0 .. call.central.num_qubits - 1 :
          /\ PlaceDefined(call.result, v)
          /\ PlaceAt(call.result, v) = PlaceAt(call.central, v)

\* C5: transpile_right on a central circuit whose full map can be read runs
\* the compiler exactly once, on the right fragment, with the hint made of
\* the first right.num_qubits entries of central's full map (route[place[v]]),
\* and a composite it returns has central's operations followed by the
\* compiled right fragment's operations, unchanged and in that order.
C5_RightProtocol ==
    (RightCalled /\ get_full_map(call.central).ok)
    => /\ Len(call.compiles) = 1
       /\ TheRun.circuit = call.fragment
       /\ TheRun.hint.present
       /\ DOMAIN TheRun.hint.list
             = 0 .. Min(call.fragment.num_qubits, call.central.num_qubits) - 1
       /\ \A v \in DOMAIN TheRun.hint.list :
             TheRun.hint.list[v]
                = RouteAt(call.central, PlaceAt(call.central, v))
       /\ call.result.ok =>
             /\ Len(call.result.ops)
                   = Len(call.central.ops) + Len(TheRun.result.ops)
             /\ \A i \in 1 .. Len(call.central.ops) :
                   call.result.ops[i] = call.central.ops[i]
             /\ \A i \in 1 .. Len(TheRun.result.ops) :
                   call.result.ops[Len(call.central.ops) + i]
                      = TheRun.result.ops[i]

\* A composite was returned for a routed central and a routed right
\* fragment, so both operation sequences are longer than the gates alone.
C5_Witness ==
    /\ RightCalled
    /\ call.result.ok
    /\ call.central.layout.present
    /\ call.central.layout.final_layout.present
    /\ call.central.layout.final_layout.map # range(call.central.num_qubits)
    /\ call.fragment.num_qubits = 2
    /\ TheRun.result.layout.final_layout.present
    /\ TheRun.hint.list # range(2)

C9_LeftHint ==
    (LeftCalled /\ Len(call.compiles) = 1)
    => /\ Len(TheRun.circuit.ops) = Len(call.fragment.ops)
       /\ \A i \in 1 .. Len(call.fragment.ops) :
             TheRun.circuit.ops[i]
                = [call.fragment.ops[Len(call.fragment.ops) + 1 - i]
                      EXCEPT !.dagger = TRUE]
       /\ TheRun.hint.present
       /\ DOMAIN TheRun.hint.list
             = IF call.central.layout.present
               THEN 0 .. Min(call.fragment.num_qubits,
                             Len0(call.central.layout.input_qubit_mapping)) - 1
               ELSE 0 .. call.fragment.num_qubits - 1
       /\ \A v \in DOMAIN TheRun.hint.list :
             TheRun.hint.list[v] = PlaceAt(call.central, v)

\* A left fragment was compiled against a central circuit whose routing
\* moves the hinted qubits away from their placement.
C9_Witness ==
    /\ LeftCalled
    /\ Len(call.compiles) = 1
    /\ call.central.layout.present
    /\ \E v \in DOMAIN TheRun.hint.list :
          RouteAt(call.central, PlaceAt(call.central, v))
             # PlaceAt(call.central, v)

\* C10: when the compiled inverted left fragment has a layout, the composite
\* transpile_left returns places the v-th virtual qubit on
\* route_rev[place_rev[v]], and its placement is a bijection between the
\* same virtual qubits and the same wires as before the reassignment.
C10_LeftEntryPlacement ==
    (LeftCalled /\ call.result.ok /\ Len(call.compiles) = 1
        /\ TheRun.result.layout.present)
    => LET before == TheRun.result.layout.initial_layout
           after == call.result.layout.initial_layout
           input_qubit_mapping == TheRun.result.layout.input_qubit_mapping
       IN  /\ call.result.layout.input_qubit_mapping = input_qubit_mapping
           /\ \A k \in DOMAIN input_qubit_mapping :
                 /\ input_qubit_mapping[k] \in DOMAIN after.v2p
                 /\ after.v2p[input_qubit_mapping[k]]
                       = RouteAt(TheRun.result, PlaceAt(TheRun.result, k))
           /\ DOMAIN after.v2p = DOMAIN before.v2p
           /\ DOMAIN after.p2v = DOMAIN before.p2v
           /\ Injective(after.v2p)
           /\ \A v \in DOMAIN after.v2p :
                 /\ after.v2p[v] \in DOMAIN after.p2v
                 /\ after.p2v[after.v2p[v]] = v

\* A composite was returned whose last virtual qubit had been moved by the
\* compiled inverted fragment's routing.
C10_Witness ==
    /\ LeftCalled
    /\ call.result.ok
    /\ Len(call.compiles) = 1
    /\ TheRun.result.layout.present
    /\ TheRun.result.num_qubits = D
    /\ RouteAt(TheRun.result, PlaceAt(TheRun.result, D - 1))
          # PlaceAt(TheRun.result, D - 1)

\* ------------------------------------------------------------------------
\* Chain against nested right stitches, with one deterministic compiler
\* ------------------------------------------------------------------------

\* Longest list of circuit parts.
MaxChain == 3

Tags == <<"A", "B", "C", "E", "F">>

\* Every list of 2 .. MaxChain parts, part i of any size and tagged Tags[i].
PartLists ==
    UNION {{[i \in 1 .. len |-> Fragment(Tags[i], sizes[i])] :
               sizes \in [1 .. len -> 1 .. D]} : len \in 2 .. MaxChain}

\* get_circuits_to_compare: the chain and the nested right stitches of the
\* same parts on the same backend, by the same compiler.
GetCircuitsToCompare(circuit_parts, backend) ==
    /\ ~compared.done
    /\ \E chain \in transpile_chain(circuit_parts, backend) :
          \E right_circuit \in
                build_right_circuit(circuit_parts, backend, chain.runs) :
             compared' = [done |-> TRUE, circuit_parts |-> circuit_parts,
                          backend |-> backend, runs |-> chain.runs,
                          Chain |-> chain.result, Right |-> right_circuit]
    /\ UNCHANGED <<central, call, stitches, operands, again, util>>

NextChain ==
    \E circuit_parts \in PartLists, backend \in Backends :
       GetCircuitsToCompare(circuit_parts, backend)

SpecChain == Init /\ [][NextChain]_vars

\* C7: for every list of three parts both paths accept, transpile_chain and
\* the nested transpile_right give the same operation sequence.
C7_ChainAssociativity ==
    (compared.done /\ Len(compared.circuit_parts) = 3
        /\ compared.Chain.ok /\ compared.Right.ok)
    => compared.Chain.ops = compared.Right.ops

\* C8: the composite of transpile_chain over parts compiled for a device has
\* the placement of the first compiled fragment and the full map of the
\* nested transpile_right composite.
C8_ChainLayout ==
    (compared.done /\ compared.backend.kind = "device"
        /\ compared.Chain.ok /\ compared.Right.ok)
    => /\ \A v \in 0 .. compared.runs[1].result.num_qubits - 1 :
             /\ PlaceDefined(compared.Chain, v)
             /\ PlaceAt(compared.Chain, v)
                   = PlaceAt(compared.runs[1].result, v)
       /\ get_full_map(compared.Chain) = get_full_map(compared.Right)

\* ------------------------------------------------------------------------
\* Rejections, operands and the identity map
\* ------------------------------------------------------------------------

HasNoInverse(fragment) ==
    \E i \in DOMAIN fragment.ops : fragment.ops[i].gate \in NoInverse

\* C11: for every left fragment holding an operation without inverse (a
\* measurement or a reset) transpile_left fails with the error of the
\* inversion before the compiler is run, returns no composite, and so never
\* a composite that lacks the operation.
C11_NonInvertibleRejected ==
    (LeftCalled /\ HasNoInverse(call.fragment))
    => /\ ~call.result.ok
       /\ call.result.error = "CircuitError"
       /\ call.compiles = << >>
       /\ central.circuit = call.central

\* A reset after three gates has been refused on a routed central circuit.
C11_Witness ==
    /\ LeftCalled
    /\ call.fragment.num_qubits = D
    /\ call.fragment.ops[Len(call.fragment.ops)].gate = "reset"
    /\ call.central.layout.present
    /\ call.central.layout.final_layout.present
    /\ ~call.result.ok

C14_FullMapIdentity ==
    (call.op = "get_full_map" /\ ~call.central.layout.present)
    => /\ call.result.ok
       /\ DOMAIN call.result.list = 0 .. call.central.num_qubits - 1
       /\ \A v \in 0 .. call.central.num_qubits - 1 : call.result.list[v] = v

\* The map of a left-stitched composite of D wires, none of them with a
\* layout, has been read.
C14_Witness ==
    /\ call.op = "get_full_map"
    /\ ~call.central.layout.present
    /\ call.central.num_qubits = D
    /\ Len(call.central.ops) > D
    /\ call.result.ok
    /\ call.result.list = range(D)

\* ------------------------------------------------------------------------
\* Sequences of stitches for one device
\* ------------------------------------------------------------------------

\* Stitches in a sequence.
MaxSeq == 2

\* The fragments of a sequence have one qubit or as many as the device.
SeqSizes == {1, D}

\* Every call of a sequence compiles for the same device, or for none.
SeqBackends == {NoBackend, Device(D)}

\* Every list of two parts of these sizes.
SeqPairs ==
    {<<Fragment(Tags[1], first), Fragment(Tags[2], second)>> :
        first \in SeqSizes, second \in SeqSizes}

\* central = transpile_chain(circuits, backend): every circuit after the
\* first is one stitch.
TranspileChain(circuits, backend) ==
    /\ ~central.held
    /\ \E chain \in transpile_chain(circuits, backend) :
          /\ call' = Call("transpile_chain", Absent, circuits, backend,
                          chain.runs, chain.result)
          /\ central' = IF chain.result.ok
                        THEN Held(chain.result, circuits[1].num_qubits)
                        ELSE central
          /\ stitches' = IF chain.result.ok
                         THEN stitches + Len(circuits) - 1
                         ELSE stitches
    /\ operands' = Operands(Absent, circuits)
    /\ again' = NotAgain
    /\ UNCHANGED <<compared, util>>

NextSeq ==
    \/ \E n \in SeqSizes, backend \in SeqBackends :
          Transpile(Fragment("A", n), backend)
    \/ \E circuits \in SeqPairs, backend \in SeqBackends :
          TranspileChain(circuits, backend)
    \/ /\ stitches < MaxSeq
       /\ \E n \in SeqSizes, backend \in SeqBackends :
             TranspileRight(Fragment("B", n), backend)
    \/ /\ stitches < MaxSeq
       /\ \E n \in SeqSizes, backend \in SeqBackends :
             TranspileLeft(Fragment("L", n), backend)

SpecSeq == Init /\ [][NextSeq]_vars

\* No layout (place and route the identity), or a well-formed one.
Sound(circuit) == ~circuit.layout.present \/ WellFormed(circuit)

\* get_full_map has one entry per wire and repeats no wire.
FullMapIsPermutation(circuit) ==
    /\ get_full_map(circuit).ok
    /\ get_full_map(circuit).list \in Perms(circuit.num_qubits)

StitchCalled == RightCalled \/ LeftCalled

\* C13: when the central circuit and the compiled fragment have well-formed
\* layouts over the same wires 0..D-1 (or none), the composite a stitch
\* returns has an injective place and a bijective route over 0..D-1 and
\* get_full_map of it has one entry per wire and repeats none; so have the
\* composite of a chain and every circuit held after any sequence of
\* stitches for one device.
C13_WellFormedPreserved ==
    /\ (StitchCalled /\ call.result.ok /\ Len(call.compiles) = 1
          /\ Sound(call.central)
          /\ (TheRun.result.layout.present =>
                 /\ WellFormed(TheRun.result)
                 /\ TheRun.result.num_qubits = call.central.num_qubits))
       => /\ Sound(call.result)
          /\ call.result.num_qubits = call.central.num_qubits
          /\ FullMapIsPermutation(call.result)
    /\ (call.op = "transpile_chain" /\ call.result.ok)
       => /\ Sound(call.result)
          /\ FullMapIsPermutation(call.result)
    /\ central.held =>
          /\ Sound(central.circuit)
          /\ FullMapIsPermutation(central.circuit)

\* A left stitch onto a right-stitched composite has given a circuit whose
\* placement and routing both move qubits.
C13_Witness ==
    /\ stitches = 2
    /\ LeftCalled
    /\ call.result.ok
    /\ \E i \in DOMAIN call.central.ops : call.central.ops[i].gate = "B"
    /\ call.result.layout.present
    /\ call.result.layout.final_layout.present
    /\ call.result.layout.final_layout.map # range(D)
    /\ get_full_map(call.result).ok
    /\ get_full_map(call.result).list # range(D)
    /\ \E v \in 0 .. D - 1 : PlaceAt(call.result, v) # v

\* ------------------------------------------------------------------------
\* A call made twice
\* ------------------------------------------------------------------------

\* transpile_right(central_circuit, right_circuit, backend) with the
\* compiler that made runs: every result, with its compiler runs.
transpile_right(central_circuit, right_circuit, backend, runs) ==
    LET hint == RightHint(central_circuit, right_circuit) IN
    IF ~hint.ok THEN {Outcome(hint, << >>)}
    ELSE {Outcome(StitchRight(central_circuit, transpiled),
                  <<Run(right_circuit, hint.hint, transpiled)>>) :
             transpiled \in SameCompiler(runs, right_circuit, backend,
                                         hint.hint)}

\* transpile_left(central_circuit, left_circuit, backend), likewise.
transpile_left(central_circuit, left_circuit, backend, runs) ==
    LET hint == LeftHint(central_circuit, left_circuit)
        inverted_left_circuit == inverse(left_circuit)
    IN  IF ~hint.ok THEN {Outcome(hint, << >>)}
        ELSE IF ~inverted_left_circuit.ok
        THEN {Outcome(inverted_left_circuit, << >>)}
        ELSE {Outcome(StitchLeft(central_circuit, transpiled),
                      <<Run(inverted_left_circuit, hint.hint, transpiled)>>) :
                 transpiled \in SameCompiler(runs, inverted_left_circuit,
                                             backend, hint.hint)}

\* The compiler gave one result for each circuit and hint of the two calls.
SameRuns(first, second) ==
    \A i \in DOMAIN first, j \in DOMAIN second :
       (first[i].circuit = second[j].circuit /\ first[i].hint = second[j].hint)
       => first[i].result = second[j].result

\* The last call once more, on the arguments it had, the compiler giving
\* again what it gave for a circuit and hint it has compiled.
Repeat ==
    /\ ~again.done
    /\ call.op \in {"transpile_right", "transpile_left", "transpile_chain",
                    "get_full_map"}
    /\ \E outcome \in
             CASE call.op = "transpile_right" ->
                    transpile_right(call.central, call.fragment, call.backend,
                                    call.compiles)
               [] call.op = "transpile_left" ->
                    transpile_left(call.central, call.fragment, call.backend,
                                   call.compiles)
               [] call.op = "transpile_chain" ->
                    {chain \in transpile_chain(call.fragment, call.backend) :
                        SameRuns(call.compiles, chain.runs)}
               [] call.op = "get_full_map" ->
                    {Outcome(get_full_map(call.central), << >>)} :
          again' = [done |-> TRUE, result |-> outcome.result,
                    compiles |-> outcome.runs]
    /\ UNCHANGED <<central, call, stitches, compared, operands, util>>

NextAgain ==
    \/ Next
    \/ \E circuits \in SeqPairs, backend \in Backends :
          TranspileChain(circuits, backend)
    \/ Repeat

SpecAgain == Init /\ [][NextAgain]_vars

SplitQubits == 3

MaxOps == 3

Max(set) == CHOOSE a \in set : \A b \in set : b <= a

Lowest(set) == CHOOSE a \in set : \A b \in set : a <= b

\* list[from:to] of a 1-based sequence read as a Python list.
Slice(list, from, to) == SubSeq(list, from + 1, Min(to, Len(list)))

RECURSIVE Concat(_)
Concat(lists) ==
    IF lists = << >> THEN << >> ELSE Head(lists) \o Concat(Tail(lists))

\* dag.layers(): an operation lies one layer after the last of the earlier
\* operations it shares a qubit with, in layer 0 if there is none.
RECURSIVE LayerOf(_, _)
LayerOf(ops, i) ==
    LET before == {j \in 1 .. i - 1 : ops[j].qubits \cap ops[i].qubits # {}}
    IN  IF before = {} THEN 0
        ELSE 1 + Max({LayerOf(ops, j) : j \in before})

\* layer_dags: the operations of every layer, in their order in the circuit.
layer_dags(ops) ==
    LET depth == IF ops = << >> THEN 0
                 ELSE 1 + Max({LayerOf(ops, i) : i \in DOMAIN ops})
    IN  [layer \in 1 .. depth |->
            SelectSeq(ops, LAMBDA op : LayerOf(ops, op.id) = layer - 1)]

\* parametrized_layer_flags
parametrized_layer_flags(layers) ==
    [layer \in DOMAIN layers |->
        \E k \in DOMAIN layers[layer] : layers[layer][k].parametrized]

\* Layer 0 taken when no layer is parametrized.
parametrized_layer_indices_from_zero(flags) ==
    IF {layer \in DOMAIN flags : flags[layer]} = {} THEN {0}
    ELSE {layer - 1 : layer \in {layer \in DOMAIN flags : flags[layer]}}

\* parametrized_layer_indices, [len(parametrized_layer_flags)] when empty.
parametrized_layer_indices(flags) ==
    IF {layer \in DOMAIN flags : flags[layer]} = {} THEN {Len(flags)}
    ELSE {layer - 1 : layer \in {layer \in DOMAIN flags : flags[layer]}}

\* layer_dags[first_index:last_index]
central_layer_dags_short(layers, first_index, last_index) ==
    Slice(layers, first_index, last_index)

\* layer_dags[first_index:last_index + 1]
central_layer_dags(layers, first_index, last_index) ==
    Slice(layers, first_index, last_index + 1)

\* The operations of (left_part, central_part, right_part).
split_parametrized_circuit(circuit) ==
    LET layers == layer_dags(circuit.ops)
        indices == parametrized_layer_indices(parametrized_layer_flags(layers))
        first_index == Lowest(indices)
        last_index == Max(indices)
    IN  [left_part |-> Concat(Slice(layers, 0, first_index)),
         central_part |->
             Concat(central_layer_dags(layers, first_index, last_index)),
         right_part |-> Concat(Slice(layers, last_index + 1, Len(layers)))]

\* An operation on some qubits, parametrized or not.
OpKinds ==
    [qubits : (SUBSET (0 .. SplitQubits - 1)) \ {{}}, parametrized : BOOLEAN]

\* Every circuit of at most MaxOps operations; id is the operation's place.
SplitCircuits ==
    UNION {{[num_qubits |-> SplitQubits,
             ops |-> [i \in 1 .. len |->
                        [id |-> i, qubits |-> kinds[i].qubits,
                         parametrized |-> kinds[i].parametrized]]] :
               kinds \in [1 .. len -> OpKinds]} : len \in 0 .. MaxOps}

UtilCall(op, input) == [op |-> op, done |-> FALSE, input |-> input,
                        result |-> Absent]

InitSplit ==
    /\ NoSession
    /\ util \in {UtilCall("split_parametrized_circuit", circuit) :
                    circuit \in SplitCircuits}

\* left_part, central_part, right_part = split_parametrized_circuit(circuit)
SplitParametrizedCircuit ==
    /\ util.op = "split_parametrized_circuit"
    /\ ~util.done
    /\ util' = [util EXCEPT !.done = TRUE,
                            !.result = split_parametrized_circuit(util.input)]
    /\ UNCHANGED <<central, call, stitches, compared, operands, again>>

NextSplit == SplitParametrizedCircuit

SpecSplit == InitSplit /\ [][NextSplit]_vars

SplitDone == util.op = "split_parametrized_circuit" /\ util.done

\* The operations of a sequence that act on the qubit, in order.
OnQubit(ops, qubit) == SelectSeq(ops, LAMBDA op : qubit \in op.qubits)

\* Equal as circuits: the same operations in the same order on every qubit.
SameCircuit(ops, other) ==
    /\ Len(ops) = Len(other)
    /\ \A qubit \in 0 .. SplitQubits - 1 :
          OnQubit(ops, qubit) = OnQubit(other, qubit)

IsParametrized(ops) == \E i \in DOMAIN ops : ops[i].parametrized

\* The layers in which an operation of the circuit is parametrized.
ParametrizedLayers(ops) ==
    {LayerOf(ops, i) : i \in {i \in DOMAIN ops : ops[i].parametrized}}

\* C16: split_parametrized_circuit gives three runs left, middle, right
\* whose concatenation has the circuit's operations in the circuit's order
\* on every qubit; no operation of left or right is parametrized; and when
\* some operation is, left holds the layers before the first parametrized
\* layer, middle the layers from the first to the last parametrized layer,
\* right the layers after it.
C16_SplitPartition ==
    SplitDone
    => LET ops == util.input.ops
           left == util.result.left_part
           middle == util.result.central_part
           right == util.result.right_part
           LayersOf(part) == {LayerOf(ops, part[k].id) : k \in DOMAIN part}
       IN  /\ SameCircuit(left \o middle \o right, ops)
           /\ \A i \in DOMAIN ops :
                 \E k \in DOMAIN (left \o middle \o right) :
                    (left \o middle \o right)[k] = ops[i]
           /\ ~IsParametrized(left)
           /\ ~IsParametrized(right)
           /\ IsParametrized(ops) =>
                 /\ \A layer \in LayersOf(left) :
                       layer < Lowest(ParametrizedLayers(ops))
                 /\ \A layer \in LayersOf(middle) :
                       /\ layer >= Lowest(ParametrizedLayers(ops))
                       /\ layer <= Max(ParametrizedLayers(ops))
                 /\ \A layer \in LayersOf(right) :
                       layer > Max(ParametrizedLayers(ops))

\* A plain operation is in the middle run beside a parametrized one, after
\* a plain left run.
C16_Witness ==
    /\ SplitDone
    /\ Len(util.input.ops) = 3
    /\ Len(util.result.left_part) = 1
    /\ Len(util.result.central_part) = 2
    /\ \E k \in 1 .. 2 : ~util.result.central_part[k].parametrized
    /\ util.result.right_part = << >>

\* C17: of a circuit without parametrized operation, the empty one too,
\* split_parametrized_circuit returns the whole circuit as left, an empty
\* middle and an empty right.
C17_SplitPlain ==
    (SplitDone /\ ~IsParametrized(util.input.ops))
    => /\ SameCircuit(util.result.left_part, util.input.ops)
       /\ \A i \in DOMAIN util.input.ops :
             \E k \in DOMAIN util.result.left_part :
                util.result.left_part[k] = util.input.ops[i]
       /\ util.result.central_part = << >>
       /\ util.result.right_part = << >>

\* A plain circuit of three layers has been split.
C17_Witness ==
    /\ SplitDone
    /\ ~IsParametrized(util.input.ops)
    /\ Len(layer_dags(util.input.ops)) = 3
    /\ Len(util.result.left_part) = 3

\* ------------------------------------------------------------------------
\* invert_map (qml_transpiler/transpile_part.py)
\* ------------------------------------------------------------------------

\* Longest qubit map.
MaxMap == 4

\* Every index looked up, 0 taken for an index the map does not hold.
invert_map_lenient(qubit_map) ==
    OkList([index \in DOMAIN qubit_map |->
               IF \E k \in DOMAIN qubit_map : qubit_map[k] = index
               THEN Lowest({k \in DOMAIN qubit_map : qubit_map[k] = index})
               ELSE 0])

\* [qubit_map.index(index) for index, qubit in enumerate(qubit_map)]:
\* list.index gives the first place of the value and raises without one.
invert_map(qubit_map) ==
    IF \E index \in DOMAIN qubit_map :
          \A k \in DOMAIN qubit_map : qubit_map[k] # index
    THEN Err("ValueError")
    ELSE OkList([index \in DOMAIN qubit_map |->
                   Lowest({k \in DOMAIN qubit_map : qubit_map[k] = index})])

\* Every list of at most MaxMap entries, each a wire, one below or one above.
QubitMaps ==
    UNION {[0 .. n - 1 -> -1 .. n] : n \in 0 .. MaxMap}

InitInvert ==
    /\ NoSession
    /\ util \in {UtilCall("invert_map", qubit_map) : qubit_map \in QubitMaps}

\* inverted_qubit_map = invert_map(qubit_map)
InvertMap ==
    /\ util.op = "invert_map"
    /\ ~util.done
    /\ util' = [util EXCEPT !.done = TRUE, !.result = invert_map(util.input)]
    /\ UNCHANGED <<central, call, stitches, compared, operands, again>>

NextInvert == InvertMap

SpecInvert == InitInvert /\ [][NextInvert]_vars

\* A bijection over 0 .. D-1, D the length of the list.
IsBijection(list) ==
    /\ \A i \in DOMAIN list : list[i] \in DOMAIN list
    /\ Injective(list)

\* C18: for every bijection p over 0..D-1 invert_map(p) is a list q over
\* 0..D-1 with q[p[i]] = i for every i, so that p after q and q after p are
\* the identity; for every list that is no bijection (an entry twice, or one
\* out of range) invert_map raises an error and returns no list.
C18_InvertMap ==
    (util.op = "invert_map" /\ util.done)
    => IF IsBijection(util.input)
       THEN /\ util.result.ok
            /\ DOMAIN util.result.list = DOMAIN util.input
            /\ \A i \in DOMAIN util.input :
                  util.result.list[util.input[i]] = i
            /\ Through(util.input, util.result.list)
                  = OkList(range(Len0(util.input)))
            /\ Through(util.result.list, util.input)
                  = OkList(range(Len0(util.input)))
       ELSE /\ ~util.result.ok
            /\ DOMAIN util.result = {"ok", "error"}

\* The cycle [1,2,3,0] has been inverted to [3,0,1,2].
C18_Witness ==
    /\ util.op = "invert_map"
    /\ util.done
    /\ util.input = AsList(<<1, 2, 3, 0>>)
    /\ util.result.ok
    /\ util.result.list = AsList(<<3, 0, 1, 2>>)

\* ------------------------------------------------------------------------
\* transpile and its stacks (rivet_transpiler/stacks.py)
\* ------------------------------------------------------------------------

IMPLEMENTED_STACKS ==
    {"qiskit", "qiskit_qsearch", "qiskit_qfactor_qsearch", "qiskit_pytket"}

\* The values a caller gives as stack: the implemented ones and some others.
StackNames ==
    IMPLEMENTED_STACKS \cup {"not_implemented_stack", "", "Qiskit", "None"}

NoStack == [present |-> FALSE]

Stack(name) == [present |-> TRUE, name |-> name]

\* key_arguments: stack, pass_manager; modules: the optional packages
\* the interpreter can import.
KeyArguments ==
    [stack : {NoStack} \cup {Stack(name) : name \in StackNames},
     pass_manager : BOOLEAN]

Modules == [bqskit : BOOLEAN, pytket : BOOLEAN]

\* The qiskit stack taken for a stack that is not implemented.
get_stack_pass_manager_falling_back(stack, modules) ==
    LET name == IF stack.present /\ stack.name \in IMPLEMENTED_STACKS
                THEN stack.name ELSE "qiskit"
    IN  IF name \in {"qiskit_qsearch", "qiskit_qfactor_qsearch"}
           /\ ~modules.bqskit
        THEN Err("ModuleNotFoundError")
        ELSE IF name = "qiskit_pytket" /\ ~modules.pytket
        THEN Err("ModuleNotFoundError")
        ELSE [ok |-> TRUE, pass_manager |-> name]

\* get_stack_pass_manager(stack="qiskit", **key_arguments): the preset pass
\* manager with the stack's pass appended, whose constructor needs its
\* package.
get_stack_pass_manager(stack, modules) ==
    LET name == IF stack.present THEN stack.name ELSE "qiskit" IN
    IF name \notin IMPLEMENTED_STACKS THEN Err("NotImplementedError")
    ELSE IF name \in {"qiskit_qsearch", "qiskit_qfactor_qsearch"}
            /\ ~modules.bqskit
    THEN Err("ModuleNotFoundError")
    ELSE IF name = "qiskit_pytket" /\ ~modules.pytket
    THEN Err("ModuleNotFoundError")
    ELSE [ok |-> TRUE, pass_manager |-> name]

\* transpile(circuit, backend, **key_arguments): every result, with the
\* pass managers it ran.
transpile_with(circuit, backend, key_arguments, modules) ==
    LET stack_pass_manager ==
            get_stack_pass_manager(key_arguments.stack, modules)
        pass_manager == IF key_arguments.pass_manager THEN "pass_manager"
                        ELSE stack_pass_manager.pass_manager
    IN  IF ~stack_pass_manager.ok THEN {Outcome(stack_pass_manager, << >>)}
        ELSE {Outcome(transpiled_circuit,
                      <<[pass_manager |-> pass_manager, circuit |-> circuit]>>) :
                 transpiled_circuit \in transpile(circuit, backend, NoHint)}

InitStack ==
    /\ NoSession
    /\ util \in {UtilCall("transpile",
                          [circuit |-> Fragment("A", n), backend |-> backend,
                           key_arguments |-> key_arguments,
                           modules |-> modules]) :
                    n \in 1 .. D, backend \in Backends,
                    key_arguments \in KeyArguments, modules \in Modules}

\* transpiled_circuit = transpile(circuit, backend, **key_arguments)
TranspileWith ==
    /\ util.op = "transpile"
    /\ ~util.done
    /\ \E outcome \in transpile_with(util.input.circuit, util.input.backend,
                                      util.input.key_arguments,
                                      util.input.modules) :
          util' = [util EXCEPT !.done = TRUE, !.result = outcome]
    /\ UNCHANGED <<central, call, stitches, compared, operands, again>>

NextStack == TranspileWith

SpecStack == InitStack /\ [][NextStack]_vars

MaxNodes == 4

MaxPacked == 2

MaxCopies == 2

ValueError(message) ==
    [ok |-> FALSE, error |-> "ValueError", message |-> message]

\* The sum of the values of a function.
RECURSIVE Sum(_)
Sum(terms) ==
    IF DOMAIN terms = {} THEN 0
    ELSE LET a == CHOOSE a \in DOMAIN terms : TRUE
         IN  terms[a] + Sum([b \in DOMAIN terms \ {a} |-> terms[b]])

\* G.has_edge(a, b) and G.neighbors(a); nodes are numbered in the order of
\* G.nodes().
has_edge(G, a, b) == {a, b} \in G.edges /\ a # b

neighbors(G, a) == {b \in G.nodes : has_edge(G, a, b)}

calculate_crosstalk_score(G, node, used_nodes) ==
    Sum([used_node \in used_nodes |->
            (IF has_edge(G, node, used_node) THEN -10 ELSE 0)
            + Sum([neighbor \in neighbors(G, used_node) |->
                      IF has_edge(G, node, neighbor) THEN -5 ELSE 0])])

\* calculate_node_score, ten times over: error rates are in hundredths.
calculate_node_score(G, node, used_nodes, error_rates) ==
    LET connectivity_score == Cardinality(neighbors(G, node))
        error_score ==
            Sum([neighbor \in neighbors(G, node) |->
                    IF {node, neighbor} \in DOMAIN error_rates
                    THEN error_rates[{node, neighbor}] ELSE 0])
    IN  10 * (connectivity_score * 2) - error_score
        + 10 * calculate_crosstalk_score(G, node, used_nodes)

\* The scores of the nodes not used are calculated again.
UpdateScores(G, error_rates, used_nodes, node_scores) ==
    [node \in G.nodes |->
        IF node \notin used_nodes
        THEN calculate_node_score(G, node, used_nodes, error_rates)
        ELSE node_scores[node]]

\* The start node is taken although it is used.
start_node_taken_anyway(start_node, used_nodes) == FALSE

\* if start_node in used_nodes: raise ValueError
start_node_in_used_nodes(start_node, used_nodes) == start_node \in used_nodes

\* while len(subgraph) < subgraph_size: the best neighbor of the subgraph
\* that is not used, or else the best node not used, is added; of nodes with
\* the best score any may come first.
RECURSIVE grow_subgraph(_, _, _, _, _, _)
grow_subgraph(G, error_rates, subgraph_size, subgraph, used_nodes, node_scores) ==
    IF Len(subgraph) >= subgraph_size
    THEN {[ok |-> TRUE, subgraph |-> subgraph, used_nodes |-> used_nodes,
           node_scores |-> node_scores]}
    ELSE
    LET inside == {subgraph[k] : k \in DOMAIN subgraph}
        connected == {neighbor \in G.nodes :
                         /\ neighbor \notin used_nodes
                         /\ neighbor \notin inside
                         /\ \E node \in inside : has_edge(G, node, neighbor)}
        available == {node \in G.nodes :
                         node \notin used_nodes /\ node \notin inside}
        candidates == IF connected # {} THEN connected ELSE available
        best == {node \in candidates :
                    \A other \in candidates :
                       node_scores[other] <= node_scores[node]}
    IN  IF candidates = {}
        THEN {ValueError("Could not find enough qubits for subgraph")}
        ELSE UNION {grow_subgraph(G, error_rates, subgraph_size,
                                  Append(subgraph, best_node),
                                  used_nodes \cup {best_node},
                                  UpdateScores(G, error_rates,
                                               used_nodes \cup {best_node},
                                               node_scores)) :
                        best_node \in best}

\* for _ in range(num_subgraphs): the node of the highest score, the first
\* such in the order of G.nodes(), starts a subgraph.
RECURSIVE find_subgraphs_from(_, _, _, _, _, _, _)
find_subgraphs_from(G, error_rates, subgraph_size, remaining, used_nodes, node_scores, subgraphs) ==
    IF remaining <= 0 THEN {[ok |-> TRUE, subgraphs |-> subgraphs]}
    ELSE IF G.nodes = {}
    THEN {ValueError("max() arg is an empty sequence")}
    ELSE
    LET start_node ==
            Lowest({node \in G.nodes :
                       \A other \in G.nodes :
                          node_scores[other] <= node_scores[node]})
        used == used_nodes \cup {start_node}
    IN  IF start_node_in_used_nodes(start_node, used_nodes)
        THEN {ValueError("Not enough nodes available for all subgraphs")}
        ELSE UNION {IF ~grown.ok THEN {grown}
                    ELSE find_subgraphs_from(G, error_rates, subgraph_size,
                                             remaining - 1, grown.used_nodes,
                                             grown.node_scores,
                                             Append(subgraphs, grown.subgraph)) :
                       grown \in grow_subgraph(G, error_rates, subgraph_size,
                                               <<start_node>>, used,
                                               UpdateScores(G, error_rates, used,
                                                            node_scores))}

\* _find_optimal_subgraphs(G, subgraph_size, num_subgraphs, error_rates)
find_optimal_subgraphs(G, subgraph_size, num_subgraphs, error_rates) ==
    IF Cardinality(G.nodes) < subgraph_size * num_subgraphs
    THEN {ValueError("Device has fewer qubits than are needed")}
    ELSE find_subgraphs_from(G, error_rates, subgraph_size, num_subgraphs, {},
                             UpdateScores(G, error_rates, {},
                                          [node \in G.nodes |-> 0]),
                             << >>)

\* pack_circuits with the subgraphs searched before the request is looked at.
pack_circuits_searching_first(circuit, num_copies, G, error_rates) ==
    {IF ~found.ok THEN found
     ELSE IF num_copies <= 0
     THEN ValueError("Number of copies must be positive")
     ELSE IF circuit.num_clbits > 0
     THEN ValueError("Input circuit should not have classical bits - measurements will be added")
     ELSE IF \E k \in DOMAIN found.subgraphs :
                Len(found.subgraphs[k]) # circuit.num_qubits
     THEN Err("CircuitError")
     ELSE [ok |-> TRUE,
           total_qubits |-> 1 + Max({found.subgraphs[k][i] :
                                        k \in DOMAIN found.subgraphs,
                                        i \in 1 .. circuit.num_qubits}),
           total_clbits |-> circuit.num_qubits * num_copies,
           qubits_map |->
               [copy_idx \in 0 .. Len(found.subgraphs) - 1 |->
                   [logical \in 0 .. circuit.num_qubits - 1 |->
                       found.subgraphs[copy_idx + 1][logical + 1]]]] :
        found \in find_optimal_subgraphs(G, circuit.num_qubits, num_copies,
                                         error_rates)}

\* pack_circuits(circuit, num_copies, target), G and error_rates being what
\* it reads from the target: compose(circuit_copy, qubits=subgraph_qubits)
\* raises unless it gets as many qubits as the circuit has.
pack_circuits(circuit, num_copies, G, error_rates) ==
    IF num_copies <= 0
    THEN {ValueError("Number of copies must be positive")}
    ELSE IF circuit.num_clbits > 0
    THEN {ValueError("Input circuit should not have classical bits - measurements will be added")}
    ELSE
    {IF ~found.ok THEN found
     ELSE IF \E k \in DOMAIN found.subgraphs :
                Len(found.subgraphs[k]) # circuit.num_qubits
     THEN Err("CircuitError")
     ELSE [ok |-> TRUE,
           total_qubits |-> 1 + Max({found.subgraphs[k][i] :
                                        k \in DOMAIN found.subgraphs,
                                        i \in 1 .. circuit.num_qubits}),
           total_clbits |-> circuit.num_qubits * num_copies,
           qubits_map |->
               [copy_idx \in 0 .. Len(found.subgraphs) - 1 |->
                   [logical \in 0 .. circuit.num_qubits - 1 |->
                       found.subgraphs[copy_idx + 1][logical + 1]]]] :
        found \in find_optimal_subgraphs(G, circuit.num_qubits, num_copies,
                                         error_rates)}

\* The graphs made of edges: up to MaxNodes nodes, each on some edge.
Graphs ==
    UNION {{[nodes |-> 0 .. n - 1, edges |-> edges] :
               edges \in {edges \in SUBSET {{a, b} : a, b \in 0 .. n - 1} :
                             /\ \A edge \in edges : Cardinality(edge) = 2
                             /\ UNION edges = 0 .. n - 1}} :
              n \in 0 .. MaxNodes}

\* The error of a two-qubit gate in hundredths, one in a hundred or a half.
ErrorLevels == {1, 50}

\* No error rates, or an error rate for one edge.
ErrorRates(G) ==
    {<< >>} \cup {[edge \in {bad} |-> level] :
                     bad \in G.edges, level \in ErrorLevels}

InitPack ==
    /\ NoSession
    /\ util \in {UtilCall("pack_circuits",
                          [circuit |-> [num_qubits |-> num_qubits,
                                        num_clbits |-> num_clbits],
                           num_copies |-> num_copies, G |-> G,
                           error_rates |-> error_rates]) :
                    num_qubits \in 0 .. MaxPacked, num_clbits \in 0 .. 1,
                    num_copies \in -1 .. MaxCopies,
                    G \in Graphs,
                    error_rates \in UNION {ErrorRates(G) : G \in Graphs}}
    /\ util.input.error_rates \in ErrorRates(util.input.G)

\* packed_circuit, qubits_map = pack_circuits(circuit, num_copies, target)
PackCircuits ==
    /\ util.op = "pack_circuits"
    /\ ~util.done
    /\ \E result \in pack_circuits(util.input.circuit, util.input.num_copies,
                                    util.input.G, util.input.error_rates) :
          util' = [util EXCEPT !.done = TRUE, !.result = result]
    /\ UNCHANGED <<central, call, stitches, compared, operands, again>>

NextPack == PackCircuits

SpecPack == InitPack /\ [][NextPack]_vars

Packed == util.op = "pack_circuits" /\ util.done /\ util.result.ok

PackDone == util.op = "pack_circuits" /\ util.done

\* C21: for a circuit of at least one qubit without classical bits, every
\* num_copies >= 1 and every device graph of at least
\* circuit.num_qubits * num_copies nodes, pack_circuits returns, and its
\* qubits_map has exactly the keys 0 .. num_copies - 1, each a map of the
\* logical qubits 0 .. num_qubits - 1 to physical qubits.
C21_PackingSucceeds ==
    (/\ PackDone
     /\ util.input.num_copies >= 1
     /\ util.input.circuit.num_clbits = 0
     /\ util.input.circuit.num_qubits >= 1
     /\ Cardinality(util.input.G.nodes)
           >= util.input.circuit.num_qubits * util.input.num_copies)
    => /\ util.result.ok
       /\ DOMAIN util.result.qubits_map = 0 .. util.input.num_copies - 1
       /\ \A k \in DOMAIN util.result.qubits_map :
             /\ DOMAIN util.result.qubits_map[k]
                   = 0 .. util.input.circuit.num_qubits - 1
             /\ Values(util.result.qubits_map[k]) \subseteq util.input.G.nodes

\* C22: pack_circuits raises ValueError and returns nothing, with
\* "Number of copies must be positive" for num_copies <= 0, else with
\* "... should not have classical bits ..." for a circuit with classical
\* bits, whatever the device graph is, else with "Device has ..." for a
\* device graph of fewer than circuit.num_qubits * num_copies nodes.
C22_InvalidRequestsRejected ==
    PackDone
    => LET circuit == util.input.circuit
           num_copies == util.input.num_copies
           too_small == Cardinality(util.input.G.nodes)
                           < circuit.num_qubits * num_copies
       IN  /\ num_copies <= 0
              => util.result
                    = ValueError("Number of copies must be positive")
           /\ num_copies > 0 /\ circuit.num_clbits > 0
              => util.result
                    = ValueError("Input circuit should not have classical bits - measurements will be added")
           /\ num_copies > 0 /\ circuit.num_clbits = 0 /\ too_small
              => util.result
                    = ValueError("Device has fewer qubits than are needed")

\* Two copies of a circuit of two qubits with a classical bit were asked for
\* a device of two nodes: the classical bits are what the error names.
C22_Witness ==
    /\ PackDone
    /\ util.input.num_copies = 2
    /\ util.input.circuit.num_qubits = 2
    /\ util.input.circuit.num_clbits = 1
    /\ Cardinality(util.input.G.nodes) = 2
    /\ ~util.result.ok
    /\ util.result.message
          = "Input circuit should not have classical bits - measurements will be added"

\* ------------------------------------------------------------------------
\* unpack_results (rivet_transpiler/circuit_packing.py)
\* ------------------------------------------------------------------------

\* Longest packed bitstring and highest count.
MaxBits == 4

MaxCount == 2

\* A bitstring is a sequence of bits; a dict of counts is a function of
\* bitstrings.
Bitstrings == UNION {[1 .. n -> {0, 1}] : n \in 0 .. MaxBits}

\* unpacked_results[copy_idx][copy_bitstring] += count, on a defaultdict(int)
Added(results, copy_bitstring, count) ==
    [key \in DOMAIN results \cup {copy_bitstring} |->
        (IF key \in DOMAIN results THEN results[key] ELSE 0)
        + (IF key = copy_bitstring THEN count ELSE 0)]

\* Every copy is given the first characters of the bitstring.
start_bit_of_the_first_copy(copy_idx, qubits_per_copy) == 0

\* start_bit = copy_idx * qubits_per_copy
start_bit(copy_idx, qubits_per_copy) == copy_idx * qubits_per_copy

\* for bitstring, count in counts.items(): for copy_idx in range(num_copies)
RECURSIVE unpack_counts(_, _, _, _, _)
unpack_counts(counts, pending, num_copies, qubits_map, unpacked_results) ==
    IF pending = {} THEN unpacked_results
    ELSE
    LET bitstring == CHOOSE bitstring \in pending : TRUE
        count == counts[bitstring]
        qubits_per_copy == Len0(qubits_map[0])
    IN  unpack_counts(
            counts, pending \ {bitstring}, num_copies, qubits_map,
            [copy_idx \in 0 .. num_copies - 1 |->
                IF copy_idx \notin DOMAIN qubits_map
                THEN unpacked_results[copy_idx]
                ELSE LET start == start_bit(copy_idx, qubits_per_copy)
                         end_bit == start + qubits_per_copy
                     IN  IF end_bit <= Len(bitstring)
                         THEN Added(unpacked_results[copy_idx],
                                    Slice(bitstring, start, end_bit), count)
                         ELSE unpacked_results[copy_idx]])

\* unpack_results(counts, num_copies, qubits_map)
unpack_results(counts, num_copies, qubits_map) ==
    IF DOMAIN counts = {}
    THEN [ok |-> TRUE, unpacked |-> [i \in 0 .. num_copies - 1 |-> << >>]]
    ELSE IF 0 \notin DOMAIN qubits_map
    THEN ValueError("Invalid qubits_map provided")
    ELSE [ok |-> TRUE,
          unpacked |->
              unpack_counts(counts, DOMAIN counts, num_copies, qubits_map,
                            [i \in 0 .. num_copies - 1 |-> << >>])]

\* The dicts of no, one or two bitstrings with a count each.
Counts ==
    UNION {[strings -> 1 .. MaxCount] :
              strings \in {{}} \cup {{a, b} : a, b \in Bitstrings}}

\* The qubits_map of some copies of a circuit of q qubits, as pack_circuits
\* numbers them when the copies lie side by side.
UnpackMaps ==
    {[copy_idx \in copies |->
         [logical \in 0 .. q - 1 |-> copy_idx * q + logical]] :
        copies \in SUBSET (0 .. MaxCopies), q \in 0 .. MaxPacked}

InitUnpack ==
    /\ NoSession
    /\ util \in {UtilCall("unpack_results",
                          [counts |-> counts, num_copies |-> num_copies,
                           qubits_map |-> qubits_map]) :
                    counts \in Counts, num_copies \in 0 .. MaxCopies,
                    qubits_map \in UnpackMaps}

\* unpacked = unpack_results(counts, num_copies, qubits_map)
UnpackResults ==
    /\ util.op = "unpack_results"
    /\ ~util.done
    /\ util' = [util EXCEPT
                   !.done = TRUE,
                   !.result = unpack_results(util.input.counts,
                                             util.input.num_copies,
                                             util.input.qubits_map)]
    /\ UNCHANGED <<central, call, stitches, compared, operands, again>>

NextUnpack == UnpackResults

SpecUnpack == InitUnpack /\ [][NextUnpack]_vars

Unpacked == util.op = "unpack_results" /\ util.done /\ util.result.ok

\* C23: the result of unpack_results has exactly the keys 0 .. num_copies - 1;
\* a copy k of these that is in qubits_map has, with q = len(qubits_map[0]),
\* for its keys the characters k*q .. (k+1)*q - 1 of the packed bitstrings of
\* at least (k+1)*q characters, each with the sum of the counts of the packed
\* bitstrings that have these characters there; and when every packed
\* bitstring has at least num_copies*q characters, the counts of each such
\* copy add up to the total of the packed counts.
C23_UnpackResults ==
    Unpacked
    => LET counts == util.input.counts
           num_copies == util.input.num_copies
           qubits_map == util.input.qubits_map
           unpacked == util.result.unpacked
           copies == DOMAIN qubits_map \cap (0 .. num_copies - 1)
       IN  /\ DOMAIN unpacked = 0 .. num_copies - 1
           /\ DOMAIN counts = {} => \A k \in copies : DOMAIN unpacked[k] = {}
           /\ DOMAIN counts # {}
              => LET q == Len0(qubits_map[0])
                     long(k) == {bitstring \in DOMAIN counts :
                                    (k + 1) * q <= Len(bitstring)}
                     part(bitstring, k) ==
                         [i \in 1 .. q |-> bitstring[k * q + i]]
                 IN  /\ \A k \in copies :
                           /\ DOMAIN unpacked[k]
                                 = {part(bitstring, k) : bitstring \in long(k)}
                           /\ \A bitstring \in long(k) :
                                 unpacked[k][part(bitstring, k)]
                                    = Sum([other \in
                                              {other \in long(k) :
                                                  part(other, k)
                                                     = part(bitstring, k)}
                                           |-> counts[other]])
                     /\ (\A bitstring \in DOMAIN counts :
                            Len(bitstring) >= num_copies * q)
                        => \A k \in copies : Sum(unpacked[k]) = Sum(counts)

\* Two copies of two qubits were unpacked from two packed bitstrings of four
\* characters that agree in the first two and differ in the last two: the
\* first copy has one bitstring with both counts, the second copy has two.
C23_Witness ==
    /\ Unpacked
    /\ util.input.num_copies = 2
    /\ DOMAIN util.input.qubits_map = {0, 1}
    /\ Len0(util.input.qubits_map[0]) = 2
    /\ util.input.counts = (<<0, 0, 0, 1>> :> 1) @@ (<<0, 0, 1, 0>> :> 2)
    /\ util.result.unpacked[0] = (<<0, 0>> :> 3)
    /\ util.result.unpacked[1] = (<<0, 1>> :> 1) @@ (<<1, 0>> :> 2)

\* ------------------------------------------------------------------------
\* transpile_and_return_metrics (rivet_transpiler/metrics.py)
\* ------------------------------------------------------------------------

\* Most passes of a pass manager.
MaxPasses == 3

\* pass_.name() of the passes a pass manager may hold.
PassNames == {"SetLayout", "BasisTranslator"}

PassManagers == UNION {[1 .. n -> PassNames] : n \in 0 .. MaxPasses}

\* key_arguments['callback'] = update_metrics_callback, the caller's
\* callback being dropped.
callback_overriding(arguments_callback) == <<"update_metrics_callback">>

\* The functions that key_arguments["callback"] calls, in order: the
\* update_metrics_callback alone, or the composite_callback of the caller's
\* callback and it.
callback_of(arguments_callback) ==
    IF ~arguments_callback.present THEN <<"update_metrics_callback">>
    ELSE <<"arguments_callback", "update_metrics_callback">>

\* The caller's callback: it raises at its raises_at-th call, never if 0.
ArgumentsCallback(raises_at) == [present |-> TRUE, raises_at |-> raises_at]

\* transpile_and_return_metrics(circuit, backend, **key_arguments) at its
\* first line: no pass is run, nothing is called, metrics = list().
MetricsCall(pass_manager, arguments_callback, dynamical_decoupling) ==
    [op |-> "transpile_and_return_metrics", done |-> FALSE,
     input |-> [pass_manager |-> pass_manager,
                arguments_callback |-> arguments_callback,
                dynamical_decoupling |-> dynamical_decoupling],
     result |-> Absent,
     pc |-> "start", callback |-> << >>, position |-> 0,
     count |-> 0, invoked |-> << >>, metrics |-> << >>, dd_passes |-> 0]

InitMetrics ==
    /\ NoSession
    /\ util \in {MetricsCall(pass_manager, arguments_callback,
                             dynamical_decoupling) :
                    pass_manager \in PassManagers,
                    arguments_callback \in
                        {Absent} \cup {ArgumentsCallback(raises_at) :
                                          raises_at \in 0 .. MaxPasses},
                    dynamical_decoupling \in BOOLEAN}

UnchangedSession == UNCHANGED <<central, call, stitches, compared, operands, again>>

\* key_arguments["callback"] is set and transpile is called, which hands it
\* to pass_manager.run.
CallTranspile ==
    /\ util.op = "transpile_and_return_metrics"
    /\ util.pc = "start"
    /\ util' = [util EXCEPT
                   !.pc = "run",
                   !.callback = callback_of(util.input.arguments_callback)]
    /\ UnchangedSession

\* pass_manager.run executes its next pass and then calls the callback.
RunPass ==
    /\ util.op = "transpile_and_return_metrics"
    /\ util.pc = "run"
    /\ util.count < Len(util.input.pass_manager)
    /\ util' = [util EXCEPT !.pc = "callback", !.position = 1]
    /\ UnchangedSession

\* The callback calls its next function with the parameters of the pass:
\* the caller's callback, which may raise, or update_metrics_callback, which
\* appends the pass metrics; after the last one the pass is over.
InvokeCallback ==
    /\ util.op = "transpile_and_return_metrics"
    /\ util.pc = "callback"
    /\ LET function == util.callback[util.position]
           invoked == Append(util.invoked,
                             [function |-> function, count |-> util.count])
           calls == Cardinality({i \in DOMAIN invoked :
                                    invoked[i].function = "arguments_callback"})
           raises == /\ function = "arguments_callback"
                     /\ calls = util.input.arguments_callback.raises_at
           last == util.position = Len(util.callback)
       IN  util' = [util EXCEPT
                       !.invoked = invoked,
                       !.metrics =
                           IF function = "update_metrics_callback"
                           THEN Append(@, [pass_index |-> util.count,
                                           pass_name |->
                                               util.input.pass_manager[util.count + 1]])
                           ELSE @,
                       !.pc = IF raises THEN "raised"
                              ELSE IF last THEN "run" ELSE "callback",
                       !.position = IF raises \/ last THEN 0 ELSE @ + 1,
                       !.count = IF ~raises /\ last THEN @ + 1 ELSE @,
                       !.done = raises,
                       !.result = IF raises THEN Err("Exception") ELSE @]
    /\ UnchangedSession

\* pass_manager.run has executed all its passes: the passes of the dynamical
\* decoupling, if asked for, are run without a callback, and
\* transpiled_circuit, metrics are returned.
ReturnMetrics ==
    /\ util.op = "transpile_and_return_metrics"
    /\ util.pc = "run"
    /\ util.count = Len(util.input.pass_manager)
    /\ util' = [util EXCEPT
                   !.pc = "returned",
                   !.dd_passes = IF util.input.dynamical_decoupling
                                 THEN 2 ELSE 0,
                   !.done = TRUE,
                   !.result = [ok |-> TRUE, metrics |-> util.metrics]]
    /\ UnchangedSession

NextMetrics == CallTranspile \/ RunPass \/ InvokeCallback \/ ReturnMetrics

SpecMetrics == InitMetrics /\ [][NextMetrics]_vars

\* The calls of a function among the calls made so far, as the pass counts
\* they were given, in order.
RECURSIVE CallsOf(_, _)
CallsOf(function, invoked) ==
    IF invoked = << >> THEN << >>
    ELSE (IF Head(invoked).function = function
          THEN <<Head(invoked).count>> ELSE << >>)
         \o CallsOf(function, Tail(invoked))

MaxCoupled == 3

MaxEdges == 2

MaxImportance == 2

None == [present |-> FALSE]

Some(value) == [present |-> TRUE, value |-> value]

\* CouplingMap(couplinglist=coupling_list).graph: the nodes 0 .. the highest
\* index of an edge, and the edges as directed pairs.
coupling_graph(coupling_list) ==
    LET edges == {coupling_list[i] : i \in DOMAIN coupling_list}
        indices == {edge[1] : edge \in edges} \cup {edge[2] : edge \in edges}
    IN  [nodes |-> IF indices = {} THEN {} ELSE 0 .. Max(indices),
         edges |-> edges]

\* graph.neighbors(node_index) of a directed graph: the successors, the node
\* itself among them if it has an edge to itself.
successors(graph, node_index) ==
    {other \in graph.nodes : <<node_index, other>> \in graph.edges}

\* The nodes of the highest importance among some nodes.
MostImportant(nodes, importances) ==
    {node \in nodes : \A other \in nodes :
                         importances[other] <= importances[node]}

\* new_candidates = {graph[node_index] for node_index in neighbours_indices
\*                   if graph[node_index] not in selected_nodes}
new_candidates(graph, node_index, selected_nodes) ==
    {other \in successors(graph, node_index) :
        other \notin {selected_nodes[i] : i \in DOMAIN selected_nodes}}

\* while len(selected_nodes) < max_nodes_count and candidates: every list of
\* selected nodes the loop may end with, max() of a set of nodes of the same
\* importance giving any of them.
RECURSIVE traverse(_, _, _, _, _)
traverse(graph, importances, max_nodes_count, selected_nodes, candidates) ==
    IF ~(Len(selected_nodes) < max_nodes_count /\ candidates # {})
    THEN {selected_nodes}
    ELSE UNION {traverse(graph, importances, max_nodes_count,
                         Append(selected_nodes, new_node),
                         (candidates \ {new_node})
                            \cup new_candidates(graph, new_node,
                                                selected_nodes)) :
                   new_node \in MostImportant(candidates, importances)}

\* get_limited_coupling_list(coupling_list, node_indices, max_nodes_count),
\* importances being what closeness_centrality(graph) gives: the results,
\* each with the selected_indices it was made from.
get_limited_coupling_list(coupling_list, node_indices, max_nodes_count, importances) ==
    LET whole == coupling_graph(coupling_list)
        count == IF max_nodes_count.present THEN max_nodes_count.value
                 ELSE Cardinality(whole.nodes)
        indices == IF node_indices.present THEN node_indices.value
                   ELSE whole.nodes
        graph == [nodes |-> whole.nodes \cap indices,
                  edges |-> {edge \in whole.edges :
                                edge[1] \in indices /\ edge[2] \in indices}]
    IN  IF ~(indices \subseteq whole.nodes) THEN {Err("IndexError")}
        ELSE IF graph.nodes = {}
        THEN {ValueError("max() arg is an empty sequence")}
        ELSE
        {IF selected_nodes = << >>
         THEN ValueError("not enough values to unpack")
         ELSE [ok |-> TRUE,
               selected_indices |-> selected_nodes,
               limited_coupling_list |->
                   SelectSeq(coupling_list,
                             LAMBDA edge :
                                \A k \in 1 .. 2 :
                                   \E i \in DOMAIN selected_nodes :
                                      selected_nodes[i] = edge[k])] :
            selected_nodes \in
                traverse(graph, importances, count, << >>,
                         {Lowest(MostImportant(graph.nodes, importances))})}

\* The coupling lists of up to MaxEdges edges between MaxCoupled nodes.
CouplingLists ==
    UNION {[1 .. n -> (0 .. MaxCoupled - 1) \X (0 .. MaxCoupled - 1)] :
              n \in 0 .. MaxEdges}

InitLimit ==
    /\ NoSession
    /\ util \in {UtilCall("get_limited_coupling_list",
                          [coupling_list |-> coupling_list,
                           node_indices |-> node_indices,
                           max_nodes_count |-> max_nodes_count,
                           importances |-> importances]) :
                    coupling_list \in CouplingLists,
                    node_indices \in
                        {None} \cup {Some(indices) :
                                        indices \in SUBSET (0 .. MaxCoupled - 1)},
                    max_nodes_count \in
                        {None} \cup {Some(count) : count \in 0 .. MaxCoupled},
                    importances \in
                        [0 .. MaxCoupled - 1 -> 1 .. MaxImportance]}

\* limited_coupling_list = get_limited_coupling_list(coupling_list, ...)
GetLimitedCouplingList ==
    /\ util.op = "get_limited_coupling_list"
    /\ ~util.done
    /\ \E result \in get_limited_coupling_list(util.input.coupling_list,
                                                util.input.node_indices,
                                                util.input.max_nodes_count,
                                                util.input.importances) :
          util' = [util EXCEPT !.done = TRUE, !.result = result]
    /\ UnchangedSession

NextLimit == GetLimitedCouplingList

SpecLimit == InitLimit /\ [][NextLimit]_vars

Limited == util.op = "get_limited_coupling_list" /\ util.done /\ util.result.ok

\* The nodes that edges between the given nodes join to a node, in either
\* direction, in any number of steps.
RECURSIVE Joined(_, _, _)
Joined(edges, nodes, reached) ==
    LET more == {node \in nodes \ reached :
                    \E other \in reached :
                       <<other, node>> \in edges \/ <<node, other>> \in edges}
    IN  IF more = {} THEN reached ELSE Joined(edges, nodes, reached \cup more)

\* C25: whenever get_limited_coupling_list returns, the selected nodes are
\* distinct, all in node_indices, at most max_nodes_count, the first of them
\* a node of the highest importance among node_indices, and they form a
\* connected subgraph of the coupling graph; the list returned has exactly
\* the edges of coupling_list with both ends selected, in their order.
C25_LimitedCouplingList ==
    Limited
    => LET coupling_list == util.input.coupling_list
           whole == coupling_graph(coupling_list)
           indices == IF util.input.node_indices.present
                      THEN util.input.node_indices.value ELSE whole.nodes
           count == IF util.input.max_nodes_count.present
                    THEN util.input.max_nodes_count.value
                    ELSE Cardinality(whole.nodes)
           selected_indices == util.result.selected_indices
           selected == {selected_indices[i] : i \in DOMAIN selected_indices}
       IN  /\ \A i, j \in DOMAIN selected_indices :
                 selected_indices[i] = selected_indices[j] => i = j
           /\ selected \subseteq indices
           /\ Len(selected_indices) <= count
           /\ \A node \in indices :
                 util.input.importances[node]
                    <= util.input.importances[selected_indices[1]]
           /\ Joined(whole.edges, selected, {selected_indices[1]}) = selected
           /\ util.result.limited_coupling_list
                 = SelectSeq(coupling_list,
                             LAMBDA edge : edge[1] \in selected
                                              /\ edge[2] \in selected)

\* ------------------------------------------------------------------------
\* get_circuit_hash (rivet_transpiler/functions.py)
\* ------------------------------------------------------------------------

\* Qubits and most operations of a hashed circuit.
HashQubits == 2

MaxHashed == 3

\* An operation of a circuit: its name and parameters, the indices of its
\* qubits in the circuit, and operation.definition, a circuit or None.
Operation(name, params, qubits, definition) ==
    [name |-> name, params |-> params, qubits |-> qubits,
     definition |-> definition]

SubCircuit(num_qubits, data) == [num_qubits |-> num_qubits, data |-> data]

\* u has no definition; x and h are defined by one u each; a custom gate
\* made with to_gate of a circuit with an x and an h is defined by that
\* circuit.
UGate(params, qubit) == Operation("u", params, <<qubit>>, None)

XGate(qubit) ==
    Operation("x", "", <<qubit>>, Some(SubCircuit(1, <<UGate("pi,0,pi", 0)>>)))

HGate(qubit) ==
    Operation("h", "", <<qubit>>, Some(SubCircuit(1, <<UGate("pi/2,0,pi", 0)>>)))

CustomGate(qubit) ==
    Operation("circuit", "", <<qubit>>,
              Some(SubCircuit(1, <<XGate(0), HGate(0)>>)))

CXGate(control, target) == Operation("cx", "", <<control, target>>, None)

\* node.sort_key: the indices of the qubits, in four digits each, as text;
\* key order is the order of these numbers.
sort_key(node) ==
    node.qubits[1] * 10
    + (IF Len(node.qubits) > 1 THEN node.qubits[2] + 1 ELSE 0)

\* dag.topological_op_nodes(): of the operations that no operation still to
\* come precedes on a qubit, the one of the lowest sort key comes next.
RECURSIVE topological_op_nodes(_, _)
topological_op_nodes(data, remaining) ==
    IF remaining = {} THEN << >>
    ELSE
    LET shares(i, j) == \E a \in DOMAIN data[i].qubits,
                           b \in DOMAIN data[j].qubits :
                           data[i].qubits[a] = data[j].qubits[b]
        ready == {j \in remaining :
                     \A i \in remaining : i < j => ~shares(i, j)}
        next == CHOOSE j \in ready :
                   \A other \in ready :
                      \/ sort_key(data[j]) < sort_key(data[other])
                      \/ sort_key(data[j]) = sort_key(data[other]) /\ j <= other
    IN  <<data[next]>> \o topological_op_nodes(data, remaining \ {next})

\* The loop over the nodes of one record: a leaf node feeds its values to
\* the hash, another node puts a record on the stack.
RECURSIVE visit_nodes(_, _, _, _, _)
visit_nodes(nodes, record, decomposition_level, stack, fed) ==
    IF nodes = << >> THEN [stack |-> stack, fed |-> fed]
    ELSE
    LET operation == Head(nodes)
        absolute_qubits ==
            [k \in DOMAIN operation.qubits |->
                record.qubit_base[operation.qubits[k] + 1]]
        leaf == \/ /\ decomposition_level.present
                   /\ record.level = decomposition_level.value
                \/ ~operation.definition.present
    IN  IF leaf
        THEN visit_nodes(Tail(nodes), record, decomposition_level, stack,
                         Append(fed, [qubits |-> absolute_qubits,
                                      bits |-> << >>,
                                      name |-> operation.name,
                                      params |-> operation.params]))
        ELSE visit_nodes(Tail(nodes), record, decomposition_level,
                         Append(stack,
                                [level |-> record.level + 1,
                                 qubit_base |-> absolute_qubits,
                                 circuit |-> operation.definition.value]),
                         fed)

\* while stack: current_record = stack.pop() ...
RECURSIVE hash_stack(_, _, _)
hash_stack(stack, decomposition_level, fed) ==
    IF stack = << >> THEN fed
    ELSE
    LET current_record == stack[Len(stack)]
        data == current_record.circuit.data
        visited == visit_nodes(topological_op_nodes(data, DOMAIN data),
                               current_record, decomposition_level,
                               SubSeq(stack, 1, Len(stack) - 1), fed)
    IN  hash_stack(visited.stack, decomposition_level, visited.fed)

\* get_circuit_hash(circuit, decomposition_level): the values fed to the
\* SHA256 hash object in order, two hashes being equal exactly if these are.
get_circuit_hash(circuit, decomposition_level) ==
    hash_stack(<<[level |-> 0,
                  qubit_base |-> [k \in 1 .. circuit.num_qubits |-> k - 1],
                  circuit |-> circuit]>>,
               decomposition_level, << >>)

HashOperations ==
    UNION {{UGate("theta", qubit), XGate(qubit), HGate(qubit),
            CustomGate(qubit)} \cup
           {CXGate(qubit, target) :
               target \in (0 .. HashQubits - 1) \ {qubit}} :
              qubit \in 0 .. HashQubits - 1}

HashCircuits ==
    {SubCircuit(HashQubits, data) :
        data \in UNION {[1 .. n -> HashOperations] : n \in 0 .. MaxHashed}}

\* The same operations in another order.
Reordered(circuit, order) ==
    SubCircuit(circuit.num_qubits,
               [i \in DOMAIN circuit.data |-> circuit.data[order[i]]])

\* The orders of n things.
Orders(n) == {order \in [1 .. n -> 1 .. n] : Injective(order)}

InitHash ==
    /\ NoSession
    /\ util \in UNION {{UtilCall("get_circuit_hash",
                                 [circuit |-> circuit,
                                  other |-> Reordered(circuit, order),
                                  decomposition_level |-> decomposition_level]) :
                            order \in Orders(Len(circuit.data)),
                            decomposition_level \in {None, Some(0), Some(1)}} :
                          circuit \in HashCircuits}

\* The hashes of the two circuits are calculated.
GetCircuitHash ==
    /\ util.op = "get_circuit_hash"
    /\ ~util.done
    /\ util' = [util EXCEPT
                   !.done = TRUE,
                   !.result =
                       [circuit_hash |->
                            get_circuit_hash(util.input.circuit,
                                             util.input.decomposition_level),
                        other_hash |->
                            get_circuit_hash(util.input.other,
                                             util.input.decomposition_level)]]
    /\ UnchangedSession

NextHash == GetCircuitHash

SpecHash == InitHash /\ [][NextHash]_vars

\* The operations of a circuit that act on a qubit, in their order.
OnWire(circuit, qubit) ==
    SelectSeq(circuit.data,
              LAMBDA operation :
                 \E k \in DOMAIN operation.qubits :
                    operation.qubits[k] = qubit)

\* C26: of two circuits with the same operations, those that differ only in
\* the order of operations on disjoint qubits (on every qubit the operations
\* come in the same order) have equal hashes, and those in which the
\* operations on some qubit come in a different order have different hashes.
C26_HashIdentifiesStructure ==
    (util.op = "get_circuit_hash" /\ util.done)
    => LET same_order ==
               \A qubit \in 0 .. HashQubits - 1 :
                  OnWire(util.input.circuit, qubit)
                     = OnWire(util.input.other, qubit)
       IN  (util.result.circuit_hash = util.result.other_hash) <=> same_order

\* ------------------------------------------------------------------------
\* remove_unused_qubits (rivet_transpiler/transforms.py)
\* ------------------------------------------------------------------------

\* used_qubits: the qubits of the circuit that some instruction acts on.
used_qubits(circuit) ==
    {qubit \in 0 .. circuit.num_qubits - 1 :
        \E i \in DOMAIN circuit.ops :
           \E k \in DOMAIN circuit.ops[i].qubits :
              circuit.ops[i].qubits[k] = qubit}

\* remove_unused_qubits(circuit): the used qubits are collected and sorted
\* into their registers, and then new_registers = defaultdict(list) is
\* reached, in a module that imports qiskit only: the name is not defined.
remove_unused_qubits(circuit) ==
    LET registers == [register \in {"q"} |-> used_qubits(circuit)]
    IN  Err("NameError")

\* The circuits a compiler gives for the fragments of up to D qubits.
CompiledCircuits ==
    {circuit \in UNION {transpile(Fragment("A", n), backend, NoHint) :
                           n \in 1 .. D, backend \in Backends} :
        circuit.ok}

InitRemove ==
    /\ NoSession
    /\ util \in {UtilCall("remove_unused_qubits", circuit) :
                    circuit \in CompiledCircuits}

\* optimized_circuit = remove_unused_qubits(transpiled_circuit)
RemoveUnusedQubits ==
    /\ util.op = "remove_unused_qubits"
    /\ ~util.done
    /\ util' = [util EXCEPT !.done = TRUE,
                            !.result = remove_unused_qubits(util.input)]
    /\ UnchangedSession

NextRemove == RemoveUnusedQubits

SpecRemove == InitRemove /\ [][NextRemove]_vars

\* C27: for a compiled circuit with a layout, remove_unused_qubits returns a
\* circuit of one qubit per used qubit of the circuit, K in all, whose
\* initial layout places its virtual qubits one to one onto 0 .. K - 1,
\* whose final layout, if present, is a permutation of 0 .. K - 1, and whose
\* full map is route[place[v]] for every virtual qubit v it has.
C27_RemoveKeepsLayout ==
    (util.op = "remove_unused_qubits" /\ util.done /\ util.input.layout.present)
    => LET reduced == util.result
           K == Cardinality(used_qubits(util.input))
       IN  /\ reduced.ok
           /\ reduced.num_qubits = K
           /\ reduced.layout.present
           /\ Injective(reduced.layout.initial_layout.v2p)
           /\ Values(reduced.layout.initial_layout.v2p) = 0 .. K - 1
           /\ reduced.layout.final_layout.present
              => /\ DOMAIN reduced.layout.final_layout.map = 0 .. K - 1
                 /\ Injective(reduced.layout.final_layout.map)
                 /\ Values(reduced.layout.final_layout.map) = 0 .. K - 1
           /\ get_full_map(reduced)
                 = OkList([v \in DOMAIN reduced.layout.input_qubit_mapping |->
                              RouteAt(reduced, PlaceAt(reduced, v))])

\* ------------------------------------------------------------------------
\* Where the qubits end after a left stitch
\* ------------------------------------------------------------------------

\* C28: after transpile_left, whatever routing permutation the compiler gave
\* the reversed left fragment, the composite's full map sends every virtual
\* qubit v of central to the wire central's own full map sends it to:
\* route'[place'[v]] = central.route[central.place[v]].
C28_LeftExitContinuity ==
    (LeftCalled /\ call.result.ok /\ Len(call.compiles) = 1)
    => \A v \in 0 .. central.N - 1 :
          /\ PlaceDefined(call.result, v)
          /\ RouteAt(call.result, PlaceAt(call.result, v))
                = RouteAt(call.central, PlaceAt(call.central, v))

\* ------------------------------------------------------------------------
\* Mixed sequences of right and left stitches onto one compiled fragment
\* ------------------------------------------------------------------------

NextMixed ==
    \/ \E n \in SeqSizes, backend \in SeqBackends :
          Transpile(Fragment("A", n), backend)
    \/ /\ stitches < MaxSeq
       /\ \E n \in SeqSizes, backend \in SeqBackends :
             TranspileRight(Fragment("B", n), backend)
    \/ /\ stitches < MaxSeq
       /\ \E n \in SeqSizes, backend \in SeqBackends :
             TranspileLeft(Fragment("L", n), backend)

SpecMixed == Init /\ [][NextMixed]_vars

\* The wire that holds, after operations i .. Len(ops), what wire held
\* before them: only the routing swaps move a wire's content.
RECURSIVE Executed(_, _, _)
Executed(ops, i, wire) ==
    IF i > Len(ops) THEN wire
    ELSE IF ops[i].gate = "swaps" /\ wire + 1 \in DOMAIN ops[i].qubits
    THEN Executed(ops, i + 1, ops[i].qubits[wire + 1])
    ELSE Executed(ops, i + 1, wire)

\* The wire virtual qubit v is on once the circuit has run from its entry
\* placement.
WireAfter(circuit, v) == Executed(circuit.ops, 1, PlaceAt(circuit, v))

\* C29: after any sequence of right and left stitches onto one compiled
\* fragment, get_full_map of the circuit held gives for every virtual qubit
\* the wire its state is on after the circuit's operations; and the hint of
\* a right stitch onto a left-stitched circuit puts every hinted qubit on
\* that wire.
C29_FullMapTracksWires ==
    /\ central.held
       => /\ get_full_map(central.circuit).ok
          /\ \A v \in 0 .. central.N - 1 :
                /\ v \in DOMAIN get_full_map(central.circuit).list
                /\ get_full_map(central.circuit).list[v]
                      = WireAfter(central.circuit, v)
    /\ (RightCalled /\ Len(call.compiles) = 1
          /\ \E i \in DOMAIN call.central.ops : call.central.ops[i].gate = "L")
       => \A v \in DOMAIN TheRun.hint.list :
             TheRun.hint.list[v] = WireAfter(call.central, v)

\* ------------------------------------------------------------------------
\* The stitchers of qml_transpiler
\* ------------------------------------------------------------------------

\* transpile_and_return_options: the compiled circuit, whose full map is
\* computed for the options before it is returned.
transpile_and_return_options(circuit, backend, hint) ==
    {IF result.ok /\ ~get_full_map(result).ok
     THEN get_full_map(result)
     ELSE result : result \in transpile(circuit, backend, hint)}

\* qml_transpiler's transpile_right from the compiled right circuit on.
QmlStitchRight(central_circuit, transpiled_right_circuit) ==
    IF ~transpiled_right_circuit.ok THEN transpiled_right_circuit
    ELSE
    LET resulting_circuit ==
            compose(central_circuit, transpiled_right_circuit, FALSE)
        central_routing ==
            Routing(central_circuit.layout.final_layout,
                    central_circuit.num_qubits)
        right_routing ==
            IF ~transpiled_right_circuit.layout.final_layout.present
            THEN central_routing
            ELSE Routing(transpiled_right_circuit.layout.final_layout,
                         transpiled_right_circuit.num_qubits)
        final_routing == Through(right_routing.list, central_routing.list)
        final_layout ==
            from_intlist(final_routing.list, resulting_circuit.num_qubits)
    IN
    IF ~resulting_circuit.ok THEN resulting_circuit
    ELSE IF ~transpiled_right_circuit.layout.present THEN resulting_circuit
    ELSE IF ~central_circuit.layout.present
    THEN [resulting_circuit EXCEPT !.layout = transpiled_right_circuit.layout]
    ELSE IF ~central_routing.ok THEN central_routing
    ELSE IF ~right_routing.ok THEN right_routing
    ELSE IF ~final_routing.ok THEN final_routing
    ELSE IF ~final_layout.ok THEN final_layout
    ELSE [resulting_circuit EXCEPT !.layout =
             TranspileLayout(central_circuit.layout.input_qubit_mapping,
                             central_circuit.layout.initial_layout,
                             final_layout.layout)]

\* qml_transpiler's transpile_left from the compiled inverted left circuit
\* on.
QmlStitchLeft(central_circuit, transpiled_inverted_left_circuit) ==
    IF ~transpiled_inverted_left_circuit.ok
    THEN transpiled_inverted_left_circuit
    ELSE
    LET inverted_back == inverse(transpiled_inverted_left_circuit)
        transpiled_left_circuit ==
            [inverted_back EXCEPT
                !.layout = transpiled_inverted_left_circuit.layout]
        resulting_circuit ==
            compose(central_circuit, transpiled_left_circuit, TRUE)
        left_routing ==
            Routing(transpiled_left_circuit.layout.final_layout,
                    transpiled_left_circuit.num_qubits)
        central_routing ==
            IF ~central_circuit.layout.present
            THEN left_routing
            ELSE IF ~central_circuit.layout.final_layout.present
            THEN left_routing
            ELSE Routing(central_circuit.layout.final_layout,
                         central_circuit.num_qubits)
        final_routing == Through(central_routing.list, left_routing.list)
        final_layout ==
            from_intlist(final_routing.list, resulting_circuit.num_qubits)
        input_qubit_mapping ==
            transpiled_left_circuit.layout.input_qubit_mapping
        initial_map == get_full_map(transpiled_left_circuit)
        initial_layout ==
            Reassign(transpiled_left_circuit.layout.initial_layout,
                     input_qubit_mapping, initial_map.list, 0)
    IN
    IF ~inverted_back.ok THEN inverted_back
    ELSE IF ~resulting_circuit.ok THEN resulting_circuit
    ELSE IF ~transpiled_left_circuit.layout.present THEN resulting_circuit
    ELSE IF ~left_routing.ok THEN left_routing
    ELSE IF ~central_routing.ok THEN central_routing
    ELSE IF ~final_routing.ok THEN final_routing
    ELSE IF ~final_layout.ok THEN final_layout
    ELSE IF ~initial_map.ok THEN initial_map
    ELSE [resulting_circuit EXCEPT !.layout =
             TranspileLayout(input_qubit_mapping, initial_layout,
                             final_layout.layout)]

\* central = qml_transpiler.transpile_right(central, right_circuit, backend)
QmlTranspileRight(right_circuit, backend) ==
    /\ central.held
    /\ LET hint == RightHint(central.circuit, right_circuit) IN
       IF ~hint.ok
       THEN /\ call' = Call("qml_transpile_right", central.circuit,
                            right_circuit, backend, << >>, hint)
            /\ UNCHANGED central
       ELSE \E transpiled \in
                   transpile_and_return_options(right_circuit, backend,
                                                hint.hint) :
               LET result == QmlStitchRight(central.circuit, transpiled) IN
               /\ call' = Call("qml_transpile_right", central.circuit,
                               right_circuit, backend,
                               <<Run(right_circuit, hint.hint, transpiled)>>,
                               result)
               /\ central' = IF result.ok THEN Held(result, central.N)
                             ELSE central
    /\ operands' = Operands(central.circuit, right_circuit)
    /\ stitches' = stitches + 1
    /\ again' = NotAgain
    /\ UNCHANGED <<compared, util>>

\* central = qml_transpiler.transpile_left(central, left_circuit, backend)
QmlTranspileLeft(left_circuit, backend) ==
    /\ central.held
    /\ LET hint == LeftHint(central.circuit, left_circuit)
           inverted_left_circuit == inverse(left_circuit)
       IN
       IF ~hint.ok \/ ~inverted_left_circuit.ok
       THEN /\ call' = Call("qml_transpile_left", central.circuit,
                            left_circuit, backend, << >>,
                            IF ~hint.ok THEN hint ELSE inverted_left_circuit)
            /\ UNCHANGED central
       ELSE \E transpiled \in
                   transpile_and_return_options(inverted_left_circuit,
                                                backend, hint.hint) :
               LET result == QmlStitchLeft(central.circuit, transpiled) IN
               /\ call' = Call("qml_transpile_left", central.circuit,
                               left_circuit, backend,
                               <<Run(inverted_left_circuit, hint.hint,
                                     transpiled)>>,
                               result)
               /\ central' = IF result.ok THEN Held(result, central.N)
                             ELSE central
    /\ operands' = Operands(central.circuit, left_circuit)
    /\ stitches' = stitches + 1
    /\ again' = NotAgain
    /\ UNCHANGED <<compared, util>>

NextQml ==
    \/ \E n \in 1 .. D, backend \in Backends :
          Transpile(Fragment("A", n), backend)
    \/ /\ stitches < MaxStitch
       /\ \E n \in 1 .. D, backend \in Backends :
             QmlTranspileRight(Fragment("B", n), backend)
    \/ /\ stitches < MaxStitch
       /\ \E n \in 1 .. D, backend \in Backends :
             \E left_circuit \in LeftFragments(n) :
                QmlTranspileLeft(left_circuit, backend)

SpecQml == Init /\ [][NextQml]_vars

\* C30: in qml_transpiler, a compiled right fragment with a layout but no
\* final_layout leaves the composite with central's routing, and a central
\* circuit without final_layout leaves the composite of a left stitch with
\* the left part's routing: the side without routing adds no permutation.
C30_AbsentRoutingIsIdentity ==
    /\ (call.op = "qml_transpile_right" /\ call.result.ok
          /\ Len(call.compiles) = 1
          /\ TheRun.result.layout.present
          /\ ~TheRun.result.layout.final_layout.present)
       => \A p \in 0 .. call.result.num_qubits - 1 :
             RouteAt(call.result, p) = RouteAt(call.central, p)
    /\ (call.op = "qml_transpile_left" /\ call.result.ok
          /\ Len(call.compiles) = 1
          /\ TheRun.result.layout.present
          /\ (~call.central.layout.present
                \/ ~call.central.layout.final_layout.present))
       => \A p \in 0 .. call.result.num_qubits - 1 :
             RouteAt(call.result, p) = RouteAt(TheRun.result, p)

====
